---- MODULE Spec2Model ----
(***************************************************************************)
(* CAN Controller Node (src/src/can_controller/can_controller_node.py).   *)
(*                                                                         *)
(* The node is modelled as the threads the code runs:                      *)
(*   - the main thread (main(), run_daemon, signal_handler, stop()),       *)
(*   - the listener thread of BaseNode that calls the registered handlers  *)
(*     and on_config_updated,                                              *)
(*   - one ingestion thread per successful _start_can_bus                  *)
(*     (_can_message_loop),                                                *)
(*   - one playback worker per accepted _start_playback                    *)
(*     (_playback_worker).                                                 *)
(* A blocking call (Bus.send, Bus.recv, Thread.join, sleep) is a position  *)
(* of the calling thread: the call is entered by one action and returns by *)
(* another, so other threads may run in between.                           *)
(***************************************************************************)
EXTENDS Integers, Sequences, FiniteSets, TLC

(***************************************************************************)
(* Bounds of the model.                                                    *)
(***************************************************************************)
MaxOpens == 2        \* Bus handles the platform grants in one run
MaxRecvErrors == 3   \* consecutive recv exceptions that are told apart
MaxPlays == 2        \* playback runs accepted in one run
PlaybackLen == 2     \* frames of the played log file
MaxParses == 2       \* files given to one CANFileParser
MaxClock == 21       \* seconds of wall-clock time that are told apart

(***************************************************************************)
(* Values of the program.                                                  *)
(***************************************************************************)
EmergencyId == 511               \* 0x1FF
DefaultBitrate == 250000
RudderPgn == 127245
RAD_SCALE == 10000              \* raw units per radian
DefaultSourceAddress == 145     \* 0x91

\* emergency_nodes of the default configuration
emergency_nodes == <<"engine", "steering", "autopilot">>

\* names that ask for live data
SubscriberNames == {"gui", "logger"}

\* can_interface_1..4 / can_channel_1..4 of the configuration file
ConfigCandidates == << [interface |-> "kvaser", channel |-> "0"] >>

WindowsDefaults ==
    << [interface |-> "kvaser", channel |-> "0"],
       [interface |-> "pcan", channel |-> "0"],
       [interface |-> "vector", channel |-> "0"],
       [interface |-> "slcan", channel |-> "0"],
       [interface |-> "usb2can", channel |-> "0"] >>

LinuxDefaults ==
    << [interface |-> "socketcan", channel |-> "vcan0"],
       [interface |-> "slcan", channel |-> "0"] >>

VARIABLES
    platform,            \* platform.system()
    mode,                \* "daemon" (--daemon) or "foreground"
    cfg_view,            \* get_config_value's layered view of can_interface / can_channel
    can_interface, can_channel, can_bitrate,
    buses,               \* every handle can.interface.Bus returned: [open]
    can_bus,             \* 0 = None, else an index of buses
    can_running,
    threads,             \* every ingestion thread started: [pc, h, errs], errs the
                         \* recv exceptions its loop has logged in a row
    can_thread,          \* 0 = None, else an index of threads
    data_subscribers,
    emergency_stop_enabled,
    playback_enabled,
    playback_running,
    workers,             \* every playback thread started: [pc, idx, h]
    playback_thread,     \* 0 = None, else an index of workers
    listening,           \* BaseNode.listening
    status,
    running_flag,        \* the module's _running
    heartbeat_task_running,
    heartbeat_thread,    \* "none" = None, else the position of _heartbeat_worker
    clock,               \* int(time.time()), where the heartbeat worker is timed
    beats,               \* the seconds in which the timed worker called send_heartbeat
    mpc, mh,             \* main thread: position, handle of its recv
    sj,                  \* the thread the join of the stop() in progress waits for
    spc,                 \* signal_handler running on the main thread: position
    lpc, lctx,           \* listener thread: position and the handler it is in
    trace,               \* what the handler being run (or last run) did, in order
    fan,                 \* what the last _process_can_message did
    calc,                \* the last call of a function made on its own:
                         \* [op, in, out]
    messages             \* self.messages of a CANFileParser

busVars == <<cfg_view, can_interface, can_channel, can_bitrate, buses, can_bus,
             can_running, threads, can_thread>>
playVars == <<playback_enabled, playback_running, workers, playback_thread>>
hbVars == <<heartbeat_task_running, heartbeat_thread, clock, beats>>
mainVars == <<mode, platform, status, running_flag, hbVars, mpc, mh, sj, spc>>

nodeVars == <<platform, mode, cfg_view, can_interface, can_channel, can_bitrate, buses,
          can_bus, can_running, threads, can_thread, data_subscribers,
          emergency_stop_enabled, playback_enabled, playback_running, workers,
          playback_thread, listening, status, running_flag,
          heartbeat_task_running, heartbeat_thread, clock, beats, mpc, mh, sj, spc,
          lpc, lctx, trace, fan>>

vars == <<nodeVars, calc, messages>>

NoFrame == [pgn |-> 0, dec |-> "none"]

\* frames the bus can deliver: the PGN and what NMEA2000Decoder does with it.
\* A received frame is first looked at by _process_can_message, which is where
\* the model draws it.
BusFrames ==
    { [pgn |-> RudderPgn, dec |-> "decoded"],
      [pgn |-> 131071, dec |-> "decoded"],
      [pgn |-> 131071, dec |-> "empty"],
      [pgn |-> 131071, dec |-> "raises"] }

NoFan == [subs |-> <<>>, ev |-> <<>>, escaped |-> FALSE, frame |-> NoFrame,
          failed |-> {}, dataFailed |-> FALSE, storeFailed |-> FALSE]

NoCanFrame == [arbitration_id |-> 0, data |-> <<>>, is_extended_id |-> FALSE]
NoCalc == [op |-> "none", in |-> <<>>, out |-> <<>>]
NoCtx == [h |-> "none", frame |-> NoCanFrame, bus |-> 0]

Init ==
    /\ platform \in {"Linux", "Windows"}
    /\ mode \in {"daemon", "foreground"}
    /\ cfg_view = [can_interface |-> "socketcan", can_channel |-> "vcan0"]
    /\ can_interface = "socketcan"
    /\ can_channel = "vcan0"
    /\ can_bitrate = DefaultBitrate
    /\ buses = <<>>
    /\ can_bus = 0
    /\ can_running = FALSE
    /\ threads = <<>>
    /\ can_thread = 0
    /\ data_subscribers = <<>>
    /\ emergency_stop_enabled = TRUE
    /\ playback_enabled \in BOOLEAN
    /\ playback_running = FALSE
    /\ workers = <<>>
    /\ playback_thread = 0
    /\ listening = FALSE
    /\ status = "INIT"
    /\ running_flag = TRUE
    /\ heartbeat_task_running = FALSE
    /\ heartbeat_thread = "none"
    /\ clock = 0
    /\ beats = <<>>
    /\ mpc = "init"
    /\ mh = 0
    /\ sj = 0
    /\ spc = "none"
    /\ lpc = "idle"
    /\ lctx = NoCtx
    /\ trace = <<>>
    /\ fan = NoFan
    /\ calc = NoCalc
    /\ messages = <<>>

(***************************************************************************)
(* CAN Bus Adapter: _detect_available_can_interfaces, _start_can_bus,      *)
(* _stop_can_bus.                                                          *)
(***************************************************************************)

\* the list config_interfaces of _detect_available_can_interfaces on a host of
\* the given system: the configured candidates can_interface_1..4 behind the
\* primary can_interface (if the configuration has one), and the defaults of the
\* platform if that list is empty
detect_candidates(system, primary, configured) ==
    LET withPrimary ==
            IF primary.can_interface # ""
            THEN << [interface |-> primary.can_interface,
                     channel |-> primary.can_channel] >> \o configured
            ELSE configured
    IN  IF withPrimary # <<>> THEN withPrimary
        ELSE IF system = "Windows" THEN WindowsDefaults ELSE LinuxDefaults

\* the candidate list _detect_available_can_interfaces builds
DetectCandidates == detect_candidates(platform, cfg_view, ConfigCandidates)

\* can.interface.Bus(interface, ...) can succeed at all on a host of the system
OpenableOn(system, interface) == ~(system = "Windows" /\ interface = "socketcan")

\* can.interface.Bus(interface, ...) can succeed on this host at all
Openable(interface) == OpenableOn(platform, interface)

RECURSIVE KeepProbed(_, _, _)
KeepProbed(cands, i, ok) ==
    IF i > Len(cands) THEN <<>>
    ELSE (IF i \in ok THEN <<cands[i]>> ELSE <<>>) \o KeepProbed(cands, i + 1, ok)

\* the list _detect_available_can_interfaces returns when the probes of the
\* candidates with index in ok succeed
detect_available_can_interfaces(ok) == KeepProbed(DetectCandidates, 1, ok)

\* the sets of candidates whose probe can succeed
ProbeOutcomes ==
    SUBSET { i \in 1..Len(DetectCandidates) : Openable(DetectCandidates[i].interface) }

\* outcomes of can.interface.Bus: a handle (TRUE) or an exception (FALSE)
OpenOutcomes(interface) ==
    IF Openable(interface) /\ Len(buses) < MaxOpens THEN {TRUE, FALSE} ELSE {FALSE}

NewThread == [pc |-> "check", h |-> 0, errs |-> 0]

\* _start_can_bus with the interface and channel it settled on
OpenBus(interface, channel, success) ==
    \E opened \in OpenOutcomes(interface) :
        /\ success = opened
        /\ can_interface' = interface
        /\ can_channel' = channel
        /\ IF opened
           THEN /\ buses' = Append(buses, [open |-> TRUE])
                /\ can_bus' = Len(buses) + 1
                /\ can_running' = TRUE
                /\ threads' = Append(threads, NewThread)
                /\ can_thread' = Len(threads) + 1
           ELSE UNCHANGED <<buses, can_bus, can_running, threads, can_thread>>

\* _start_can_bus; success is its return value
start_can_bus(success) ==
    /\ UNCHANGED <<cfg_view, can_bitrate>>
    /\ IF platform = "Windows" /\ can_interface = "socketcan"
       THEN \E ok \in ProbeOutcomes :
                LET detected == detect_available_can_interfaces(ok)
                IN  IF detected # <<>>
                    THEN OpenBus(detected[1].interface, detected[1].channel, success)
                    ELSE /\ success = FALSE
                         /\ UNCHANGED <<can_interface, can_channel, buses, can_bus,
                                        can_running, threads, can_thread>>
       ELSE OpenBus(can_interface, can_channel, success)

\* Bus.shutdown() of the handle can_bus refers to (the second half of _stop_can_bus)
ShutdownBus(bs) ==
    IF can_bus # 0 THEN [bs EXCEPT ![can_bus].open = FALSE] ELSE bs

ThreadAlive(i) == threads[i].pc # "done"

(***************************************************************************)
(* What a step leaves for inspection.  trace holds what the handler the    *)
(* listener is in has done so far, and is kept in the state that follows   *)
(* the handler's last step; fan holds what a _process_can_message did, in  *)
(* the state that follows it.  Every other step clears them.  calc holds   *)
(* the arguments and the result of a codec function called on its own; the *)
(* steps of the node leave it alone.                                       *)
(***************************************************************************)
NoCall == calc' = calc /\ messages' = messages
KeepTrace == trace' = IF lpc = "idle" THEN <<>> ELSE trace
Quiet == fan' = NoFan /\ KeepTrace /\ NoCall

(***************************************************************************)
(* Category Classifier: _categorize_data, _get_collection_name.            *)
(***************************************************************************)
\* a variant that knows the rapid-update engine PGN only
\* (C33_CategoryTable tells it apart)
categorize_data_rapid_only(pgn) ==
    IF pgn = 126993 THEN "Heartbeat"
    ELSE IF pgn = 127488 THEN "Engine"
    ELSE IF pgn = 127505 THEN "Fuel"
    ELSE IF pgn \in {127250, 127257, 129026, 129025, 129540, 129029, 126992,
                     129539, 127258, 129283, 129284} THEN "Navigation"
    ELSE IF pgn \in {127751, 127500, 127501} THEN "EnergyDistribution"
    ELSE IF pgn = RudderPgn THEN "Steering"
    ELSE IF pgn \in {127508, 127506} THEN "Battery"
    ELSE IF pgn \in {65361, 60928, 59392} THEN "Product"
    ELSE "Unknown"

\* _categorize_data: the chain of comparisons with data.PGN, a category named
\* by its member of DataCategories
categorize_data(pgn) ==
    IF pgn = 126993 THEN "Heartbeat"
    ELSE IF pgn \in {127488, 127489, 127497} THEN "Engine"
    ELSE IF pgn = 127505 THEN "Fuel"
    ELSE IF pgn \in {127250, 127257, 129026, 129025, 129540, 129029, 126992,
                     129539, 127258, 129283, 129284} THEN "Navigation"
    ELSE IF pgn \in {127751, 127500, 127501} THEN "EnergyDistribution"
    ELSE IF pgn = RudderPgn THEN "Steering"
    ELSE IF pgn \in {127508, 127506} THEN "Battery"
    ELSE IF pgn \in {65361, 60928, 59392} THEN "Product"
    ELSE "Unknown"

get_collection_name(category) ==
    IF category = "Heartbeat" THEN "NodeHeartbeat"
    ELSE IF category \in {"Fuel", "Navigation", "Engine", "EnergyDistribution",
                          "Steering", "Battery", "Product"} THEN category
    ELSE "Unknown"

(***************************************************************************)
(* Fan-out: _broadcast_to_subscribers, _send_parsed_data_to_db,            *)
(* _process_can_message.  A send of BaseNode either returns or raises; the *)
(* caller names the call that raises.                                      *)
(***************************************************************************)
NodeEv(to, decoded) == [k |-> "node", to |-> to, decoded |-> decoded]
McEv(what, category) == [k |-> "mc", what |-> what, category |-> category]

\* _broadcast_to_subscribers over the registry subs, where the send_to_node
\* call number failAt raises (0: none does): the deliveries made, in order
broadcast_to_subscribers(subs, decoded, failAt) ==
    LET last == IF failAt = 0 THEN Len(subs) ELSE failAt - 1
    IN  [i \in 1..last |-> NodeEv(subs[i], decoded)]

\* _send_parsed_data_to_db: the store_can_data COMMAND, unless its send raises
send_parsed_data_to_db(category, storeFails) ==
    IF storeFails THEN <<>> ELSE << McEv("store_can_data", get_collection_name(category)) >>

\* _process_can_message(frame) with the registry subs.  f1 and f2 name the raising
\* send_to_node call of the broadcast in the try block and in the except block,
\* dataFails whether the DATA send to Master Core raises.
process_can_message(frame, subs, storeFails, f1, dataFails, f2) ==
    LET category == categorize_data(frame.pgn)
        raisedAt(f) == IF f = 0 THEN {} ELSE {subs[f]}
        onError(done, before) ==
            [subs |-> subs, frame |-> frame,
             ev |-> done \o broadcast_to_subscribers(subs, "error", f2),
             escaped |-> f2 # 0,
             failed |-> before \cup raisedAt(f2),
             dataFailed |-> dataFails /\ before = {} /\ frame.dec # "raises",
             storeFailed |-> storeFails /\ frame.dec = "decoded"]
        body(pre, decoded) ==
            LET first == pre \o broadcast_to_subscribers(subs, decoded, f1)
            IN  IF f1 # 0 THEN onError(first, raisedAt(f1))
                ELSE IF dataFails THEN onError(first, {})
                ELSE [subs |-> subs, frame |-> frame,
                      ev |-> first \o << McEv("DATA", "") >>, escaped |-> FALSE,
                      failed |-> {}, dataFailed |-> FALSE,
                      storeFailed |-> storeFails /\ frame.dec = "decoded"]
    IN  IF frame.dec = "raises" THEN onError(<<>>, {})
        ELSE IF frame.dec = "decoded"
        THEN body(send_parsed_data_to_db(category, storeFails), "yes")
        ELSE body(<<>>, "no")

\* every outcome of _process_can_message(frame) in the current state
ProcessOutcomes(frame) ==
    { process_can_message(frame, data_subscribers, sf, f1, df, f2) :
        sf \in BOOLEAN, f1 \in 0..Len(data_subscribers), df \in BOOLEAN,
        f2 \in 0..Len(data_subscribers) }

(***************************************************************************)
(* Ingestion Loop: _can_message_loop, one per ingestion thread.            *)
(***************************************************************************)
Exited == mpc = "exited"          \* the process has ended, and its threads with it

BusOpen(h) == h # 0 /\ buses[h].open

\* while self.can_running: ... self.can_bus.recv(timeout=1.0) is entered
LoopCheck(i) ==
    /\ ~Exited
    /\ threads[i].pc = "check"
    /\ threads' = [threads EXCEPT
                     ![i] = IF can_running
                            THEN [pc |-> "recv", h |-> can_bus, errs |-> @.errs]
                            ELSE [pc |-> "done", h |-> 0, errs |-> 0]]
    /\ Quiet
    /\ UNCHANGED <<cfg_view, can_interface, can_channel, can_bitrate, buses, can_bus,
                   can_running, can_thread, data_subscribers, emergency_stop_enabled,
                   playVars, listening, mainVars, lpc, lctx>>

\* recv returns a frame
RecvFrame(i) ==
    /\ ~Exited
    /\ threads[i].pc = "recv"
    /\ BusOpen(threads[i].h)
    /\ threads' = [threads EXCEPT ![i] = [pc |-> "got", h |-> 0, errs |-> 0]]
    /\ Quiet
    /\ UNCHANGED <<cfg_view, can_interface, can_channel, can_bitrate, buses, can_bus,
                   can_running, can_thread, data_subscribers, emergency_stop_enabled,
                   playVars, listening, mainVars, lpc, lctx>>

\* recv returns None at its timeout
RecvNone(i) ==
    /\ ~Exited
    /\ threads[i].pc = "recv"
    /\ BusOpen(threads[i].h)
    /\ threads' = [threads EXCEPT ![i] = [pc |-> "check", h |-> 0, errs |-> 0]]
    /\ Quiet
    /\ UNCHANGED <<cfg_view, can_interface, can_channel, can_bitrate, buses, can_bus,
                   can_running, can_thread, data_subscribers, emergency_stop_enabled,
                   playVars, listening, mainVars, lpc, lctx>>

\* recv raises (always, on a handle that is shut down); except logs the
\* exception and the loop goes on.  Exceptions in a row are counted up to told.
RecvRaises(i, told) ==
    /\ ~Exited
    /\ threads[i].pc = "recv"
    /\ threads' = [threads EXCEPT
                     ![i] = [pc |-> "check", h |-> 0,
                             errs |-> IF @.errs < told THEN @.errs + 1
                                      ELSE @.errs]]
    /\ Quiet
    /\ UNCHANGED <<cfg_view, can_interface, can_channel, can_bitrate, buses, can_bus,
                   can_running, can_thread, data_subscribers, emergency_stop_enabled,
                   playVars, listening, mainVars, lpc, lctx>>

\* self._process_can_message(message); what escapes it is logged by the loop
ProcessFrame(i) ==
    /\ ~Exited
    /\ threads[i].pc = "got"
    /\ \E frame \in BusFrames : fan' \in ProcessOutcomes(frame)
    /\ NoCall
    /\ threads' = [threads EXCEPT ![i] = [pc |-> "check", h |-> 0, errs |-> 0]]
    /\ KeepTrace
    /\ UNCHANGED <<cfg_view, can_interface, can_channel, can_bitrate, buses, can_bus,
                   can_running, can_thread, data_subscribers, emergency_stop_enabled,
                   playVars, listening, mainVars, lpc, lctx>>

Ingestion ==
    \E i \in 1..Len(threads) :
        \/ LoopCheck(i) \/ RecvFrame(i) \/ RecvNone(i)
        \/ RecvRaises(i, MaxRecvErrors)
        \/ ProcessFrame(i)

(***************************************************************************)
(* Main thread: main(), start(), run_daemon, signal_handler, stop().       *)
(***************************************************************************)
MainFree == spc \in {"none", "done"}     \* no signal handler is on the main thread's stack

\* start(), up to the pause that waits for Master Core's configuration:
\* BaseNode.start() has started the listener
StartBase ==
    /\ mpc = "init"
    /\ MainFree
    /\ mpc' = "starting"
    /\ listening' = TRUE
    /\ Quiet
    /\ UNCHANGED <<busVars, data_subscribers, emergency_stop_enabled, playVars, mode,
                   platform, status, running_flag, hbVars, mh, sj, spc, lpc, lctx>>

\* start(), from _start_can_bus on (_start_heartbeat_task when the bus opened),
\* and main()'s branch on its result
StartBus ==
    /\ mpc = "starting"
    /\ MainFree
    /\ \E success \in BOOLEAN :
         /\ start_can_bus(success)
         /\ heartbeat_task_running' = (success \/ heartbeat_task_running)
         /\ heartbeat_thread' = IF success THEN "check" ELSE heartbeat_thread
         /\ status' = IF success THEN "RUNNING" ELSE "ERROR"
         /\ mpc' = IF ~success THEN "exited"
                   ELSE IF mode = "daemon" THEN "daemon_loop" ELSE "fg_check"
         /\ running_flag' = IF success /\ mode = "daemon" THEN TRUE ELSE running_flag
    /\ Quiet
    /\ UNCHANGED <<data_subscribers, emergency_stop_enabled, playVars, mode, platform,
                   listening, clock, beats, mh, sj, spc, lpc, lctx>>

\* run_daemon: while self.listening: ... self.can_bus.recv(timeout=1.0) is entered
FgCheck ==
    /\ mpc = "fg_check"
    /\ MainFree
    /\ listening
    /\ mpc' = "fg_recv"
    /\ mh' = can_bus
    /\ Quiet
    /\ UNCHANGED <<busVars, data_subscribers, emergency_stop_enabled, playVars, mode,
                   platform, status, running_flag, hbVars, sj, spc, listening, lpc, lctx>>

FgRecvFrame ==
    /\ mpc = "fg_recv"
    /\ MainFree
    /\ BusOpen(mh)
    /\ mpc' = "fg_got"
    /\ mh' = 0
    /\ Quiet
    /\ UNCHANGED <<busVars, data_subscribers, emergency_stop_enabled, playVars, mode,
                   platform, status, running_flag, hbVars, sj, spc, listening, lpc, lctx>>

\* recv returns None, or raises and the loop logs it and sleeps a second
FgRecvNothing ==
    /\ mpc = "fg_recv"
    /\ MainFree
    /\ mpc' = "fg_check"
    /\ mh' = 0
    /\ Quiet
    /\ UNCHANGED <<busVars, data_subscribers, emergency_stop_enabled, playVars, mode,
                   platform, status, running_flag, hbVars, sj, spc, listening, lpc, lctx>>

FgProcess ==
    /\ mpc = "fg_got"
    /\ MainFree
    /\ \E frame \in BusFrames : fan' \in ProcessOutcomes(frame)
    /\ NoCall
    /\ mpc' = "fg_check"
    /\ KeepTrace
    /\ UNCHANGED <<busVars, data_subscribers, emergency_stop_enabled, playVars, mode,
                   platform, status, running_flag, hbVars, mh, sj, spc, listening,
                   lpc, lctx>>

\* stop(), up to the join of _stop_heartbeat_task, entered in context ctx
\* (signal_handler, or main() and run_daemon)
StopEnter(ctx) ==
    /\ heartbeat_task_running' = FALSE
    /\ sj' = IF heartbeat_thread = "none" THEN 0 ELSE 1
    /\ IF ctx = "sig" THEN spc' = "join_hb" /\ UNCHANGED mpc
                      ELSE mpc' = "join_hb" /\ UNCHANGED spc
    /\ Quiet
    /\ UNCHANGED <<busVars, data_subscribers, emergency_stop_enabled, playVars, mode,
                   platform, status, heartbeat_thread, clock, beats, mh, listening,
                   lpc, lctx>>

\* SIGINT or SIGTERM: signal_handler runs on the main thread and calls stop()
Signal ==
    /\ spc = "none"
    /\ mpc \in {"daemon_loop", "fg_check", "fg_recv", "fg_got"}
    /\ running_flag' = FALSE
    /\ StopEnter("sig")

\* the stop() that ends run_daemon (finally) or follows main()'s loop
MainStop ==
    /\ MainFree
    /\ \/ mpc = "daemon_loop" /\ ~running_flag
       \/ mpc = "fg_check" /\ ~listening
    /\ UNCHANGED running_flag
    /\ StopEnter("main")

AtStop(ctx, at) == IF ctx = "sig" THEN spc = at ELSE MainFree /\ mpc = at

HeartbeatAlive == heartbeat_thread \notin {"none", "done"}

\* stop(): the join of _stop_heartbeat_task returns (timedOut: with the thread
\* alive), and _stop_can_bus clears its flag and joins
StopJoinHb(ctx, timedOut) ==
    /\ AtStop(ctx, "join_hb")
    /\ timedOut = (sj # 0 /\ HeartbeatAlive)
    /\ can_running' = FALSE
    /\ sj' = can_thread
    /\ IF ctx = "sig" THEN spc' = "join_can" /\ UNCHANGED mpc
                      ELSE mpc' = "join_can" /\ UNCHANGED spc
    /\ Quiet
    /\ UNCHANGED <<cfg_view, can_interface, can_channel, can_bitrate, buses, can_bus,
                   threads, can_thread, data_subscribers, emergency_stop_enabled,
                   playVars, mode, platform, status, running_flag, hbVars, mh,
                   listening, lpc, lctx>>

\* stop(): the join of _stop_can_bus returns (timedOut: with the thread alive),
\* the handle is shut down, and _stop_playback clears its flag and joins
StopJoinCan(ctx, timedOut) ==
    /\ AtStop(ctx, "join_can")
    /\ timedOut = (sj # 0 /\ ThreadAlive(sj))
    /\ buses' = ShutdownBus(buses)
    /\ playback_running' = FALSE
    /\ sj' = playback_thread
    /\ IF ctx = "sig" THEN spc' = "join_pb" /\ UNCHANGED mpc
                      ELSE mpc' = "join_pb" /\ UNCHANGED spc
    /\ Quiet
    /\ UNCHANGED <<cfg_view, can_interface, can_channel, can_bitrate, can_bus, can_running,
                   threads, can_thread, data_subscribers, emergency_stop_enabled,
                   playback_enabled, workers, playback_thread, mode, platform, status,
                   running_flag, hbVars, mh, listening, lpc, lctx>>

WorkerAlive(j) == workers[j].pc # "done"

\* stop(): the join of _stop_playback returns, and BaseNode.stop() ends listening;
\* after main()'s own stop() the process ends
StopJoinPb(ctx, timedOut) ==
    /\ AtStop(ctx, "join_pb")
    /\ timedOut = (sj # 0 /\ WorkerAlive(sj))
    /\ listening' = FALSE
    /\ sj' = 0
    /\ IF ctx = "sig" THEN spc' = "done" /\ UNCHANGED mpc
                      ELSE mpc' = "exited" /\ UNCHANGED spc
    /\ Quiet
    /\ UNCHANGED <<busVars, data_subscribers, emergency_stop_enabled, playVars, mode,
                   platform, status, running_flag, hbVars, mh, lpc, lctx>>

\* _heartbeat_worker: while self.heartbeat_task_running
HeartbeatCheck ==
    /\ ~Exited
    /\ heartbeat_thread = "check"
    /\ heartbeat_thread' = IF heartbeat_task_running THEN "beat" ELSE "done"
    /\ Quiet
    /\ UNCHANGED <<busVars, data_subscribers, emergency_stop_enabled, playVars,
                   listening, mode, platform, status, running_flag,
                   heartbeat_task_running, clock, beats, mpc, mh, sj, spc, lpc, lctx>>

\* the body of the loop: send_heartbeat() in a second that is a multiple of ten
\* (what it raises is logged), then a sleep of one second.  Where the worker is
\* timed, the sleep returns with the integer clock d seconds on.
HeartbeatBeat(timed, d) ==
    /\ ~Exited
    /\ heartbeat_thread = "beat"
    /\ heartbeat_thread' = "check"
    /\ IF timed
       THEN /\ clock + d <= MaxClock
            /\ beats' = IF clock % 10 = 0 THEN Append(beats, clock) ELSE beats
            /\ clock' = clock + d
       ELSE UNCHANGED <<clock, beats>>
    /\ Quiet
    /\ UNCHANGED <<busVars, data_subscribers, emergency_stop_enabled, playVars,
                   listening, mode, platform, status, running_flag,
                   heartbeat_task_running, mpc, mh, sj, spc, lpc, lctx>>

\* the heartbeat worker, its timing not recorded
Heartbeat == HeartbeatCheck \/ HeartbeatBeat(FALSE, 1)

\* the heartbeat worker timed: time.sleep(1) returns after one second or more,
\* so that the integer clock read at the next check is 1 or 2 seconds on
TimedHeartbeat == HeartbeatCheck \/ \E d \in {1, 2} : HeartbeatBeat(TRUE, d)

\* a second passes before the node is started
ClockTick ==
    /\ mpc = "init"
    /\ clock < 9
    /\ clock' = clock + 1
    /\ Quiet
    /\ UNCHANGED <<busVars, data_subscribers, emergency_stop_enabled, playVars,
                   listening, mode, platform, status, running_flag,
                   heartbeat_task_running, heartbeat_thread, beats, mpc, mh, sj, spc,
                   lpc, lctx>>

Main ==
    \/ StartBase \/ StartBus
    \/ FgCheck \/ FgRecvFrame \/ FgRecvNothing \/ FgProcess
    \/ Signal \/ MainStop
    \/ \E ctx \in {"sig", "main"}, timedOut \in BOOLEAN :
         StopJoinHb(ctx, timedOut) \/ StopJoinCan(ctx, timedOut) \/ StopJoinPb(ctx, timedOut)

(***************************************************************************)
(* PGN Payload Encoder: _j1939_to_can_id, _format_rudder_message, the      *)
(* emergency frame.  A frame is [arbitration_id, data, is_extended_id].    *)
(***************************************************************************)
\* a variant that bounds a value from below only (C27_PiIsNotClamped tells it apart)
ClampBelow(lo, hi, x) == IF x < lo THEN lo ELSE x

Clamp(lo, hi, x) == IF x < lo THEN lo ELSE IF x > hi THEN hi ELSE x

\* a variant that keeps 17 bits of the PGN (C24_IdRoundTripButDestination tells
\* it apart)
j1939_to_can_id_17bit(pgn, source_address, priority) ==
    Clamp(0, 7, priority) * (2 ^ 26) + Clamp(0, 131071, pgn) * (2 ^ 8)
        + Clamp(0, 255, source_address)

\* (priority << 26) | (pgn << 8) | source_address of the clamped values: the three
\* fields do not overlap, so the OR is the sum
j1939_to_can_id(pgn, source_address, priority) ==
    Clamp(0, 7, priority) * (2 ^ 26) + Clamp(0, 262143, pgn) * (2 ^ 8)
        + Clamp(0, 255, source_address)

\* a variant that packs the magnitude of a negative value
\* (C26_RudderRoundTrip tells it apart)
Unsigned16Magnitude(x) ==
    LET c == Clamp(-32768, 32767, x) IN IF c < 0 THEN (0 - c) % 65536 ELSE c % 65536

\* two's complement of a value clamped to int16
Unsigned16(x) ==
    LET c == Clamp(-32768, 32767, x) IN IF c < 0 THEN (c + 65536) % 65536 ELSE c % 65536

\* a variant that sends the rudder frame with priority 3
\* (C28_RudderIdentifier tells it apart)
format_rudder_message_priority3(instance, direction_order, angle_order, position, reserved_48, source_address) ==
    LET ang == Unsigned16(angle_order)
        pos == Unsigned16(position)
        res == reserved_48 % 65536
    IN  [arbitration_id |-> j1939_to_can_id(RudderPgn, source_address, 3),
         data |-> << instance % 256, (direction_order % 65536) % 8,
                     ang % 256, ang \div 256, pos % 256, pos \div 256,
                     res % 256, res \div 256 >>,
         is_extended_id |-> TRUE]

\* a variant that packs the two angles high byte first
\* (C29_RudderLayout tells it apart)
format_rudder_message_big_endian(instance, direction_order, angle_order, position, reserved_48, source_address) ==
    LET ang == Unsigned16(angle_order)
        pos == Unsigned16(position)
        res == reserved_48 % 65536
    IN  [arbitration_id |-> j1939_to_can_id(RudderPgn, source_address, 6),
         data |-> << instance % 256, (direction_order % 65536) % 8,
                     ang \div 256, ang % 256, pos \div 256, pos % 256,
                     res % 256, res \div 256 >>,
         is_extended_id |-> TRUE]

\* _format_rudder_message; angles are given in units of 0.0001 rad, as
\* int(round(rad * 10000)) leaves them
format_rudder_message(instance, direction_order, angle_order, position, reserved_48, source_address) ==
    LET ang == Unsigned16(angle_order)
        pos == Unsigned16(position)
        res == reserved_48 % 65536
    IN  [arbitration_id |-> j1939_to_can_id(RudderPgn, source_address, 6),
         data |-> << instance % 256, (direction_order % 65536) % 8,
                     ang % 256, ang \div 256, pos % 256, pos \div 256,
                     res % 256, res \div 256 >>,
         is_extended_id |-> TRUE]

\* a variant that sends the emergency identifier in an extended frame
\* (C1_EmergencyFrameThenPeers tells it apart)
EmergencyFrameExtended ==
    [arbitration_id |-> EmergencyId,
     data |-> <<255, 255, 255, 255, 255, 255, 255, 255>>,
     is_extended_id |-> TRUE]

\* the frame of _send_emergency_stop_can
EmergencyFrame ==
    [arbitration_id |-> EmergencyId,
     data |-> <<255, 255, 255, 255, 255, 255, 255, 255>>,
     is_extended_id |-> FALSE]

\* the can_data of a send_message command
SampleCanData == [arbitration_id |-> 291, data |-> <<1, 2>>, is_extended_id |-> FALSE]

\* a variant that sends every frame with the default priority
\* (C25_J1939FrameDecodesButDestination tells it apart)
j1939_frame_default_priority(pgn, source_address, data, priority) ==
    [arbitration_id |-> j1939_to_can_id(pgn, source_address, 6),
     data |-> IF Len(data) > 8 THEN SubSeq(data, 1, 8) ELSE data,
     is_extended_id |-> TRUE]

\* the frame _send_j1939_message builds: data cut to 8 bytes, extended id
j1939_frame(pgn, source_address, data, priority) ==
    [arbitration_id |-> j1939_to_can_id(pgn, source_address, priority),
     data |-> IF Len(data) > 8 THEN SubSeq(data, 1, 8) ELSE data,
     is_extended_id |-> TRUE]

(***************************************************************************)
(* The codec called on its own.  An angle is given in hundred-thousandths  *)
(* of a radian, one digit below what the wire resolves.  The header        *)
(* decoder (NMEA2000Decoder._extract_header) and the rudder decoder belong *)
(* to the nmea2000 library; they are taken as the design describes them.   *)
(***************************************************************************)
AngleUnit == 100000             \* angle arguments per radian
Pi == 314159                    \* pi, in angle arguments

\* int(round(rad * RAD_SCALE)): round to the nearest raw unit, a tie to the even one
ScaleRad(a) ==
    LET per == AngleUnit \div RAD_SCALE
        q == a \div per
        r == a % per
    IN  IF 2 * r > per \/ (2 * r = per /\ q % 2 = 1) THEN q + 1 ELSE q

\* the header of a 29-bit identifier: priority, source, and the 18-bit field
\* split into PF and PS; PDU1 (PF < 240) carries a destination in PS
decode_id(id) ==
    LET pf_ps == (id \div 256) % (2 ^ 18)
        pf == (pf_ps \div 256) % 256
        ps == pf_ps % 256
    IN  [pgn |-> IF pf < 240 THEN pf_ps - ps ELSE pf_ps,
         source |-> id % 256,
         destination |-> IF pf < 240 THEN ps ELSE 255,
         priority |-> (id \div (2 ^ 26)) % 8]

\* the inverse the node has: _j1939_to_can_id of a header's pgn, source and priority
encode_id(header) == j1939_to_can_id(header.pgn, header.source, header.priority)

Signed16(u) == IF u >= 32768 THEN u - 65536 ELSE u

\* the fields of a rudder payload by its bit layout, angles in raw units
decode_rudder(data) ==
    [instance |-> data[1],
     directionOrder |-> data[2] % 8,
     reserved_11 |-> data[2] \div 8,
     angleOrder |-> Signed16(data[3] + 256 * data[4]),
     position |-> Signed16(data[5] + 256 * data[6]),
     reserved_48 |-> data[7] + 256 * data[8]]

\* identifiers of every shape: priority, the two bits above PF, PF on both sides
\* of 240, PS, source
SampleIds ==
    { p * (2 ^ 26) + hi * (2 ^ 24) + pf * (2 ^ 16) + ps * 256 + sa :
        p \in {0, 6, 7}, hi \in {0, 1, 3}, pf \in {0, 234, 239, 240, 241, 255},
        ps \in {0, 13, 35, 255}, sa \in {0, DefaultSourceAddress, 255} }

\* PGNs of both PDU formats, with and without a low byte
SamplePgns == {0, 59904, 59939, 61184, RudderPgn, 130306, 2 ^ 18 - 1}

\* angles inside the int16 range of raw units, at its ends, and beyond them
SampleAngles == {0, 8000, 20000, -8000, 12344, -12346, Pi, -Pi, 327670, -327680,
                 327674, 400000, -400000}

\* decode_id, then encode_id
CallIdRoundTrip ==
    /\ calc.op = "none"
    /\ \E id \in SampleIds :
         calc' = [op |-> "id", in |-> [id |-> id],
                  out |-> [header |-> decode_id(id), id |-> encode_id(decode_id(id))]]
    /\ UNCHANGED <<nodeVars, messages>>

\* the frame of _send_j1939_message
CallJ1939Frame ==
    /\ calc.op = "none"
    /\ \E pgn \in SamplePgns, sa \in {0, 35, DefaultSourceAddress, 255}, priority \in 0..7 :
         calc' = [op |-> "j1939",
                  in |-> [pgn |-> pgn, source_address |-> sa, priority |-> priority],
                  out |-> j1939_frame(pgn, sa, <<1, 2, 3, 4, 5, 6, 7, 8, 9>>, priority)]
    /\ UNCHANGED <<nodeVars, messages>>

\* _format_rudder_message of a payload; supplied: the payload has a reserved_48
CallFormatRudder ==
    /\ calc.op = "none"
    /\ \E instance \in {0, 1, 255}, direction \in {0, 5, 7}, angle \in SampleAngles,
          position \in SampleAngles, supplied \in BOOLEAN,
          sa \in {35, DefaultSourceAddress} :
         calc' = [op |-> "rudder",
                  in |-> [instance |-> instance, directionOrder |-> direction,
                          angleOrder |-> angle, position |-> position,
                          supplied |-> supplied, source_address |-> sa],
                  out |-> format_rudder_message(instance, direction, ScaleRad(angle),
                                                ScaleRad(position),
                                                IF supplied THEN 0 ELSE 65535, sa)]
    /\ UNCHANGED <<nodeVars, messages>>

NextCodec == CallIdRoundTrip \/ CallJ1939Frame \/ CallFormatRudder

\* the codec functions over their sample arguments, one call in a run, beside a
\* node just constructed
SpecCodec == Init /\ [][NextCodec]_vars

(***************************************************************************)
(* Log parser (src/src/can_controller/can_file_parser.py): CANFileParser.  *)
(* A line is the list of its columns (what re.split leaves of it), a       *)
(* column the list of its characters.                                      *)
(***************************************************************************)
HexDigits == <<"0", "1", "2", "3", "4", "5", "6", "7", "8", "9", "A", "B", "C", "D", "E", "F">>
UpperCase == <<"A", "B", "C", "D", "E", "F", "G", "H", "I", "J", "K", "L", "M", "N", "O",
               "P", "Q", "R", "S", "T", "U", "V", "W", "X", "Y", "Z">>
LowerCase == <<"a", "b", "c", "d", "e", "f", "g", "h", "i", "j", "k", "l", "m", "n", "o",
               "p", "q", "r", "s", "t", "u", "v", "w", "x", "y", "z">>

\* str.lower() and str.upper() of one character
Lower(c) == IF \E i \in 1..26 : UpperCase[i] = c
            THEN LowerCase[CHOOSE i \in 1..26 : UpperCase[i] = c] ELSE c
Upper(c) == IF \E i \in 1..26 : LowerCase[i] = c
            THEN UpperCase[CHOOSE i \in 1..26 : LowerCase[i] = c] ELSE c

IsHexChar(c) == \E v \in 1..16 : HexDigits[v] = Upper(c)
IsDecChar(c) == \E v \in 1..10 : HexDigits[v] = c
DigitValue(c) == (CHOOSE v \in 1..16 : HexDigits[v] = Upper(c)) - 1

\* int(column, base) of a column of digits; any other column raises ValueError
IsNumber(column, base) ==
    /\ column # <<>>
    /\ \A i \in 1..Len(column) :
          IF base = 16 THEN IsHexChar(column[i]) ELSE IsDecChar(column[i])

RECURSIVE NumberValue(_, _)
NumberValue(column, base) ==
    IF column = <<>> THEN 0
    ELSE base * NumberValue(SubSeq(column, 1, Len(column) - 1), base)
             + DigitValue(column[Len(column)])

\* float(column) of digits around at most one point; any other column raises
IsFloat(column) ==
    /\ \E i \in 1..Len(column) : IsDecChar(column[i])
    /\ \A i \in 1..Len(column) : IsDecChar(column[i]) \/ column[i] = "."
    /\ Cardinality({ i \in 1..Len(column) : column[i] = "." }) <= 1

\* column.replace(a + b, "")
RECURSIVE RemovePair(_, _, _)
RemovePair(column, a, b) ==
    IF Len(column) < 2 THEN column
    ELSE IF column[1] = a /\ column[2] = b
    THEN RemovePair(SubSeq(column, 3, Len(column)), a, b)
    ELSE << column[1] >> \o RemovePair(Tail(column), a, b)

\* where the first "->" of the column begins (0: there is none)
ArrowAt(column) ==
    LET at == { i \in 1..(Len(column) - 1) : column[i] = "-" /\ column[i + 1] = ">" }
    IN  IF at = {} THEN 0 ELSE CHOOSE i \in at : \A j \in at : i <= j

\* column.split("->")[0] and column.split("->")[1] of a column that holds "->"
BeforeArrow(column) == SubSeq(column, 1, ArrowAt(column) - 1)
AfterArrow(column) ==
    LET rest == SubSeq(column, ArrowAt(column) + 2, Len(column))
    IN  IF ArrowAt(rest) = 0 THEN rest ELSE BeforeArrow(rest)

\* a | b of two naturals
RECURSIVE BitOr(_, _)
BitOr(a, b) ==
    IF a = 0 THEN b
    ELSE IF b = 0 THEN a
    ELSE (IF a % 2 = 1 \/ b % 2 = 1 THEN 1 ELSE 0) + 2 * BitOr(a \div 2, b \div 2)

\* the data_bytes loop of _parse_kvaser_line over the columns i..last: a column
\* "-" is passed over, one that is no hex number gives 0
RECURSIVE data_bytes(_, _, _)
data_bytes(parts, i, last) ==
    IF i > last THEN <<>>
    ELSE (IF parts[i] # <<>> /\ parts[i] # << "-" >>
          THEN << IF IsNumber(parts[i], 16) THEN NumberValue(parts[i], 16) ELSE 0 >>
          ELSE <<>>) \o data_bytes(parts, i + 1, last)

\* while len(data_bytes) < 8: data_bytes.append(0)
PadTo8(bytes) == bytes \o [i \in 1..(IF Len(bytes) < 8 THEN 8 - Len(bytes) ELSE 0) |-> 0]

\* _parse_kvaser_line of a stripped line: no message (None) or one message
parse_kvaser_line(parts) ==
    IF parts = <<>> \/ parts[1][1] = "#" THEN <<>>
    ELSE IF Len(parts) < 12 THEN <<>>
    ELSE IF ~IsFloat(parts[Len(parts) - 1]) THEN <<>>
    ELSE
      LET priority == parts[2]
          pgn_clean == RemovePair(RemovePair(parts[4], "0", "x"), "0", "X")
          pgn_int == IF IsNumber(pgn_clean, 16) THEN NumberValue(pgn_clean, 16) ELSE 0
          sa_da_field == parts[5]
          sa_part == IF ArrowAt(sa_da_field) # 0 THEN BeforeArrow(sa_da_field)
                     ELSE sa_da_field
          sa_int == IF IsNumber(sa_part, 16) THEN NumberValue(sa_part, 16) ELSE 0
          da_part == IF ArrowAt(sa_da_field) # 0 THEN AfterArrow(sa_da_field)
                     ELSE sa_da_field
          da_int == IF da_part = << "*" >> THEN 255
                    ELSE IF IsNumber(da_part, 16) THEN NumberValue(da_part, 16) ELSE 255
          priority_int == IF IsNumber(priority, 10) THEN NumberValue(priority, 10) ELSE 6
          bytes == PadTo8(data_bytes(parts, 7, IF Len(parts) < 14 THEN Len(parts) ELSE 14))
      IN  << [can_id |-> BitOr(BitOr(priority_int * (2 ^ 26), pgn_int * (2 ^ 8)), sa_int),
              pgn |-> pgn_int, source |-> sa_int, destination |-> da_int,
              priority |-> priority_int, data |-> SubSeq(bytes, 1, 8),
              raw_line |-> parts] >>

\* the column holds the keyword once lowered
HoldsKeyword(column, keyword) ==
    \E i \in 1..Len(column) :
        /\ i + Len(keyword) - 1 <= Len(column)
        /\ \A k \in 1..Len(keyword) : Lower(column[i + k - 1]) = keyword[k]

\* the first line is taken for a header: its lowered text holds a keyword
IsHeader(parts) ==
    \E c \in 1..Len(parts) :
        \E keyword \in { <<"w", "i", "n", "n", "o">>, <<"p", "g", "n">>, <<"s", "a">>,
                         <<"d", "a">> } : HoldsKeyword(parts[c], keyword)

RECURSIVE ParseLines(_, _)
ParseLines(lines, from) ==
    IF from > Len(lines) THEN <<>>
    ELSE parse_kvaser_line(lines[from]) \o ParseLines(lines, from + 1)

\* parse_log_file on an instance whose self.messages is held: the list it
\* returns, which is self.messages afterwards
parse_log_file(held, lines) ==
    held \o ParseLines(lines, IF lines # <<>> /\ IsHeader(lines[1]) THEN 2 ELSE 1)

\* lines of log files: a header, records with all and with fewer data columns,
\* with "-" columns, with fields that are no numbers and with fields wider than
\* their place in the identifier, a comment, and lines that are no record
SampleLineSeq ==
    << << <<"W", "i", "n", "N", "o">>, <<"P">>, <<"P", "G", "N">>, <<"S", "A">>, <<"D", "A">>, <<"F", "l", "g">>, <<"L", "e", "n">>, <<"D", "0", ".", ".", ".", "1", ".", ".", ".", "2", ".", ".", ".", "3", ".", ".", ".", "4", ".", ".", ".", "5", ".", ".", ".", "6", ".", ".", "D", "7">>, <<"T", "i", "m", "e">>, <<"D", "i", "r">> >>,
       << <<"C", "A", "N">>, <<"1">>, <<"6">>, <<"1", "F", "1", "0", "D">>, <<"D", "E", "-", ">", "*">>, <<"8">>, <<"0", "5">>, <<"F", "F">>, <<"5", "E">>, <<"0", "6">>, <<"F", "F">>, <<"F", "F">>, <<"F", "F">>, <<"F", "F">>, <<"1", "8", "4", "0", ".", "9", "3", "7", "6", "6", "2">>, <<"R">> >>,
       << <<"C", "A", "N">>, <<"1">>, <<"6">>, <<"1", "F", "1", "0", "D">>, <<"9", "1", "-", ">", "*">>, <<"8">>, <<"0", "5">>, <<"-">>, <<"5", "E">>, <<"0", "6">>, <<"-">>, <<"F", "F">>, <<"F", "F">>, <<"F", "F">>, <<"1", "8", "4", "0", ".", "9", "5">>, <<"R">> >>,
       << <<"C", "A", "N">>, <<"3">>, <<"6">>, <<"1", "F", "2", "1", "1">>, <<"9", "1", "-", ">", "2", "3">>, <<"4">>, <<"0", "A">>, <<"0", "B">>, <<"0", "C">>, <<"0", "D">>, <<"1", "2", ".", "5">>, <<"T">> >>,
       << <<"C", "A", "N">>, <<"2">>, <<"6">>, <<"0", "x", "1", "F", "8", "0", "1">>, <<"2", "3">>, <<"8">>, <<"0", "1">>, <<"0", "2">>, <<"0", "3">>, <<"0", "4">>, <<"0", "5">>, <<"0", "6">>, <<"0", "7">>, <<"-">>, <<"1", "3", ".", "2", "5">>, <<"R">> >>,
       << <<"C", "A", "N">>, <<"9">>, <<"6">>, <<"1", "F", "1", "0", "D">>, <<"9", "1", "-", ">", "*">>, <<"8">>, <<"0", "0">>, <<"0", "0">>, <<"D", "0">>, <<"0", "7">>, <<"2", "0">>, <<"0", "3">>, <<"F", "F">>, <<"F", "F">>, <<"1", "4", ".", "0">>, <<"R">> >>,
       << <<"C", "A", "N">>, <<"P">>, <<"6">>, <<"7", "F", "F", "F", "F", "F">>, <<"1", "F", "F", "-", ">", "*">>, <<"8">>, <<"Z", "Z">>, <<"0", "2">>, <<"0", "3">>, <<"0", "4">>, <<"0", "5">>, <<"0", "6">>, <<"0", "7">>, <<"0", "8">>, <<"1", "5", ".", "5">>, <<"R">> >>,
       << <<"C", "A", "N">>, <<"7">>, <<"6">>, <<"X", "Y", "Z">>, <<"-", ">", "F", "F">>, <<"8">>, <<"-">>, <<"-">>, <<"-">>, <<"-">>, <<"-">>, <<"-">>, <<"-">>, <<"-">>, <<"1", "6", ".", "0">>, <<"R">> >>,
       << <<"#">>, <<"C", "A", "N">>, <<"1">>, <<"6">>, <<"1", "F", "1", "0", "D">>, <<"D", "E", "-", ">", "*">>, <<"8">>, <<"0", "5">>, <<"F", "F">>, <<"5", "E">>, <<"0", "6">>, <<"F", "F">>, <<"F", "F">>, <<"F", "F">>, <<"F", "F">>, <<"1", "8", "4", "0", ".", "9", "3", "7", "6", "6", "2">>, <<"R">> >>,
       << <<"C", "A", "N">>, <<"1">>, <<"6">>, <<"1", "F", "1", "0", "D">>, <<"D", "E", "-", ">", "*">>, <<"8">>, <<"0", "5">>, <<"F", "F">> >>,
       << <<"C", "A", "N">>, <<"1">>, <<"6">>, <<"1", "F", "1", "0", "D">>, <<"D", "E", "-", ">", "*">>, <<"8">>, <<"0", "5">>, <<"F", "F">>, <<"5", "E">>, <<"0", "6">>, <<"F", "F">>, <<"F", "F">>, <<"F", "F">>, <<"F", "F">>, <<"s", "o", "o", "n">>, <<"R">> >> >>

\* a file: the lines of SampleLineSeq with the given numbers
FileOf(numbers) == [i \in 1..Len(numbers) |-> SampleLineSeq[numbers[i]]]

SampleFiles == { FileOf(<<1, 2, 3>>), FileOf(<<4, 9, 5>>), FileOf(<<2>>), FileOf(<<>>) }

\* _parse_kvaser_line of one line
CallParseLine ==
    /\ calc.op = "none"
    /\ \E n \in 1..Len(SampleLineSeq) :
         calc' = [op |-> "line", in |-> [parts |-> SampleLineSeq[n]],
                  out |-> parse_kvaser_line(SampleLineSeq[n])]
    /\ UNCHANGED <<nodeVars, messages>>

\* parse_log_file of a file, on a CANFileParser that has been given
\* calc.in.call files before
CallParseLogFile ==
    /\ calc.op \in {"none", "parse"}
    /\ LET call == IF calc.op = "parse" THEN calc.in.call + 1 ELSE 1
       IN  /\ call <= MaxParses
           /\ \E file \in SampleFiles :
                /\ messages' = parse_log_file(messages, file)
                /\ calc' = [op |-> "parse", in |-> [file |-> file, call |-> call],
                            out |-> messages']
    /\ UNCHANGED nodeVars

\* _j1939_to_can_id of integers inside and outside the width of their fields
CallJ1939ToCanId ==
    /\ calc.op = "none"
    /\ \E pgn \in {-1, 0, RudderPgn, 262143, 262144, 2 ^ 20},
          sa \in {-5, 0, DefaultSourceAddress, 255, 256, 1000},
          priority \in {-1, 0, 6, 7, 8, 100} :
         calc' = [op |-> "can_id",
                  in |-> [pgn |-> pgn, source_address |-> sa, priority |-> priority],
                  out |-> j1939_to_can_id(pgn, sa, priority)]
    /\ UNCHANGED <<nodeVars, messages>>

NextParser == CallParseLine \/ CallParseLogFile \/ CallJ1939ToCanId

\* the log parser over sample lines and files, and the identifier the node
\* builds from the same three fields
SpecParser == Init /\ [][NextParser]_vars

(***************************************************************************)
(* Auto-detection called on its own.                                       *)
(***************************************************************************)
\* what the configuration can hold under can_interface_1..4, and under
\* can_interface ("": the key is absent)
SampleConfigured ==
    { <<>>,
      << [interface |-> "kvaser", channel |-> "0"] >>,
      << [interface |-> "kvaser", channel |-> "0"], [interface |-> "pcan", channel |-> "1"] >>,
      << [interface |-> "socketcan", channel |-> "can0"],
         [interface |-> "vector", channel |-> "0"] >> }

SamplePrimary ==
    { [can_interface |-> "", can_channel |-> "0"],
      [can_interface |-> "socketcan", can_channel |-> "vcan0"],
      [can_interface |-> "pcan", can_channel |-> "0"] }

\* _detect_available_can_interfaces, and what _start_can_bus makes of its result
\* when the node's can_interface is socketcan; ok: the candidates whose probe opens
CallDetect ==
    /\ calc.op = "none"
    /\ \E system \in {"Windows", "Linux"}, primary \in SamplePrimary,
          configured \in SampleConfigured :
         LET cands == detect_candidates(system, primary, configured)
         IN  \E ok \in SUBSET { i \in 1..Len(cands) : OpenableOn(system, cands[i].interface) } :
                LET detected == KeepProbed(cands, 1, ok)
                IN  calc' = [op |-> "detect",
                             in |-> [system |-> system, primary |-> primary,
                                     configured |-> configured, ok |-> ok],
                             out |-> [probed |-> cands, detected |-> detected,
                                      active |-> IF detected # <<>> THEN detected[1]
                                                 ELSE [interface |-> "socketcan",
                                                       channel |-> "vcan0"]]]
    /\ UNCHANGED <<nodeVars, messages>>

\* auto-detection over sample configurations and probe outcomes, one call in a run
SpecDetect == Init /\ [][CallDetect]_vars

(***************************************************************************)
(* The classifier called on its own.                                       *)
(***************************************************************************)
\* the PGNs _categorize_data compares with
RecognizedPgns ==
    {126993, 127488, 127505, 127250, 127257, 129026, 129025, 129540, 129029, 126992,
     129539, 127258, 127489, 127497, 127751, 127500, 127501, RudderPgn, 127508,
     127506, 129283, 129284, 65361, 60928, 59392}

\* every recognized PGN, its two neighbours, and PGNs far from all of them
ClassifierPgns ==
    RecognizedPgns \cup { pgn - 1 : pgn \in RecognizedPgns }
        \cup { pgn + 1 : pgn \in RecognizedPgns } \cup {0, 59904, 130306, 2 ^ 18 - 1}

\* _categorize_data of a decoded message, then _get_collection_name
CallCategorize ==
    /\ calc.op = "none"
    /\ \E pgn \in ClassifierPgns :
         calc' = [op |-> "categorize", in |-> [pgn |-> pgn],
                  out |-> [category |-> categorize_data(pgn),
                           collection |-> get_collection_name(categorize_data(pgn))]]
    /\ UNCHANGED <<nodeVars, messages>>

\* the classifier over its sample PGNs, one call in a run
SpecClassifier == Init /\ [][CallCategorize]_vars

(***************************************************************************)
(* Listener thread: the handlers registered in __init__.  BaseNode routes  *)
(* a message by its type to the handler registered under that name.        *)
(***************************************************************************)

BusState(h) == IF h = 0 THEN "none" ELSE IF buses[h].open THEN "open" ELSE "shut"

HandleEv(type, command) ==
    [k |-> "handle", type |-> type, command |-> command, bus |-> BusState(can_bus)]
CanSendEv(frame, ok) == [k |-> "can_send", frame |-> frame, ok |-> ok]
PeerEv(to, type) == [k |-> "peer", to |-> to, type |-> type]

\* _send_response: a RESPONSE of NORMAL priority
send_response(st, message) ==
    [k |-> "response", priority |-> "NORMAL", status |-> st, message |-> message]

\* _send_error_response: a RESPONSE of HIGH priority that carries {"error": ...}
send_error_response(error) ==
    [k |-> "response", priority |-> "HIGH", status |-> "error", message |-> error]

\* BaseNode.send_emergency(nodes, payload): one EMERGENCY message to each name
send_emergency(nodes) == [i \in 1..Len(nodes) |-> PeerEv(nodes[i], "EMERGENCY")]

CanListen == ~Exited /\ listening /\ lpc = "idle"

\* the listener finishes a handler in one step
Finish(events) ==
    /\ trace' = events
    /\ fan' = NoFan
    /\ NoCall
    /\ lpc' = "idle"
    /\ lctx' = NoCtx

\* the listener enters self.can_bus.send(frame) in handler h
EnterSend(h, frame, events) ==
    /\ trace' = events
    /\ fan' = NoFan
    /\ NoCall
    /\ lpc' = "send"
    /\ lctx' = [h |-> h, frame |-> frame, bus |-> can_bus]

notBus == <<data_subscribers, emergency_stop_enabled, playVars, listening, mainVars>>

\* a variant of the senders without their test of self.can_bus: with no handle
\* the attribute lookup raises out of the handler (C13_SendOnClosedBusAnswersError
\* tells it apart)
CommandSendUnguarded(command, frame, payloadError) ==
    /\ CanListen
    /\ IF payloadError # ""
       THEN Finish(<< HandleEv("command", command), send_error_response(payloadError) >>)
       ELSE IF can_bus = 0
       THEN Finish(<< HandleEv("command", command), [k |-> "raise"] >>)
       ELSE EnterSend(command, frame, << HandleEv("command", command) >>)
    /\ UNCHANGED <<busVars, notBus>>

\* the sends of _handle_can_command, up to the bus send: a failure before the send
\* is answered at once
CommandSend(command, frame, payloadError) ==
    /\ CanListen
    /\ IF payloadError # ""
       THEN Finish(<< HandleEv("command", command), send_error_response(payloadError) >>)
       ELSE IF can_bus = 0
       THEN Finish(<< HandleEv("command", command),
                      send_response("error", "Failed to send") >>)
       ELSE EnterSend(command, frame, << HandleEv("command", command) >>)
    /\ UNCHANGED <<busVars, notBus>>

\* send_message: _send_can_message(can_data)
HandleSendMessage ==
    \/ CommandSend("send_message", SampleCanData, "")
    \/ CommandSend("send_message", NoCanFrame, "Missing can_data in payload")

\* send_j1939: _send_j1939_message(pgn, source_address, data, priority)
HandleSendJ1939 ==
    \/ \E pgn \in {RudderPgn, 59904}, sa \in {35, 145}, priority \in {3, 6} :
         CommandSend("send_j1939", j1939_frame(pgn, sa, <<1, 2, 3, 4, 5, 6, 7, 8, 9>>, priority), "")
    \/ CommandSend("send_j1939", NoCanFrame, "Missing pgn or source_address in payload")

\* send_can_message: _format_rudder_message, then _send_can_message
HandleSendCanMessage ==
    \/ \E position \in {800, -31416}, angle \in {2000} :
         CommandSend("send_can_message",
                     format_rudder_message(0, 0, angle, position, 65535, 145), "")
    \/ CommandSend("send_can_message", NoCanFrame, "Missing pgn in payload")
    \/ CommandSend("send_can_message", NoCanFrame, "Failed to format rudder message")
    \/ CommandSend("send_can_message", NoCanFrame, "Unsupported PGN for send_can_message")

\* a command _handle_can_command has no branch for
CommandNames ==
    {"start_monitoring", "stop_monitoring", "send_message", "send_j1939",
     "send_can_message", "subscribe_data", "emergency_stop", "play_can_file", "reboot"}

HandledCommands ==
    {"start_monitoring", "stop_monitoring", "send_message", "send_j1939",
     "send_can_message"}

HandleOtherCommand ==
    /\ CanListen
    /\ \E command \in CommandNames \ HandledCommands :
         Finish(<< HandleEv("command", command), send_error_response("Unknown command") >>)
    /\ UNCHANGED <<busVars, notBus>>

\* Bus.send returns (ok) or raises; on a handle that is shut down it raises
SendOutcomes(h) == IF BusOpen(h) THEN {TRUE, FALSE} ELSE {FALSE}

\* the bus send of a command returns, and the handler answers
CommandSendReturn ==
    /\ ~Exited
    /\ lpc = "send"
    /\ lctx.h # "emergency_stop"
    /\ \E ok \in SendOutcomes(lctx.bus) :
         Finish(trace \o << CanSendEv(lctx.frame, ok),
                            send_response(IF ok THEN "success" ELSE "error",
                                          IF ok THEN "sent" ELSE "Failed to send") >>)
    /\ UNCHANGED <<busVars, notBus>>

\* _handle_emergency_stop, up to the bus send of _send_emergency_stop_can: with
\* can_bus None the attribute lookup raises inside the try block of the sender
HandleEmergencyStop ==
    /\ CanListen
    /\ IF emergency_stop_enabled /\ can_bus # 0
       THEN EnterSend("emergency_stop", EmergencyFrame, << HandleEv("emergency_stop", "") >>)
       ELSE Finish(<< HandleEv("emergency_stop", "") >> \o send_emergency(emergency_nodes))
    /\ UNCHANGED <<busVars, notBus>>

\* a variant in which a send that raises is not caught: the exception leaves the
\* handler before the broadcast (C2_EmergencyBroadcastAlways tells it apart)
EmergencySendReturnUncaught ==
    /\ ~Exited
    /\ lpc = "send"
    /\ lctx.h = "emergency_stop"
    /\ \E ok \in SendOutcomes(lctx.bus) :
         Finish(trace \o << CanSendEv(lctx.frame, ok) >>
                      \o (IF ok THEN send_emergency(emergency_nodes)
                          ELSE << [k |-> "raise"] >>))
    /\ UNCHANGED <<busVars, notBus>>

\* the emergency send returns or raises (and is logged); then the broadcast
EmergencySendReturn ==
    /\ ~Exited
    /\ lpc = "send"
    /\ lctx.h = "emergency_stop"
    /\ \E ok \in SendOutcomes(lctx.bus) :
         Finish(trace \o << CanSendEv(lctx.frame, ok) >> \o send_emergency(emergency_nodes))
    /\ UNCHANGED <<busVars, notBus>>

\* a variant that inserts a name whether or not it is present
\* (C30_RegistryInsertOnly tells it apart)
HandleSubscribeDataAgain ==
    /\ CanListen
    /\ \E subscriber \in SubscriberNames \cup {""} :
         /\ data_subscribers' =
              IF subscriber # "" THEN Append(data_subscribers, subscriber)
              ELSE data_subscribers
         /\ Finish(<< HandleEv("subscribe_data", subscriber) >>)
    /\ UNCHANGED <<busVars, emergency_stop_enabled, playVars, listening, mainVars>>

\* _handle_subscribe_data
HandleSubscribeData ==
    /\ CanListen
    /\ \E subscriber \in SubscriberNames \cup {""} :
         /\ data_subscribers' =
              IF subscriber # "" /\ \A i \in 1..Len(data_subscribers) :
                                        data_subscribers[i] # subscriber
              THEN Append(data_subscribers, subscriber)
              ELSE data_subscribers
         /\ Finish(<< HandleEv("subscribe_data", subscriber) >>)
    /\ UNCHANGED <<busVars, emergency_stop_enabled, playVars, listening, mainVars>>

\* start_monitoring
HandleStartMonitoring ==
    /\ CanListen
    /\ IF can_bus # 0
       THEN /\ Finish(<< HandleEv("command", "start_monitoring"),
                         send_response("success", "CAN monitoring already started") >>)
            /\ UNCHANGED busVars
       ELSE \E success \in BOOLEAN :
              /\ start_can_bus(success)
              /\ Finish(<< HandleEv("command", "start_monitoring"),
                           IF success THEN send_response("success", "CAN monitoring started")
                           ELSE send_error_response("Failed to start CAN bus") >>)
    /\ UNCHANGED notBus

\* a variant of _stop_can_bus that leaves can_running set
\* (C19_FailedReopenRecovers tells it apart)
EnterJoinKeepsRunning(h, events) ==
    /\ can_running' = can_running
    /\ trace' = events
    /\ fan' = NoFan
    /\ NoCall
    /\ lpc' = "join"
    /\ lctx' = [h |-> h, frame |-> NoCanFrame, bus |-> can_bus]

\* the listener enters self.can_thread.join(timeout=5) of _stop_can_bus in handler h
EnterJoin(h, events) ==
    /\ can_running' = FALSE
    /\ trace' = events
    /\ fan' = NoFan
    /\ NoCall
    /\ lpc' = "join"
    /\ lctx' = [h |-> h, frame |-> NoCanFrame, bus |-> can_bus]

\* stop_monitoring, up to the join of _stop_can_bus
HandleStopMonitoring ==
    /\ CanListen
    /\ IF can_bus = 0
       THEN /\ Finish(<< HandleEv("command", "stop_monitoring"),
                         send_response("success", "CAN monitoring already stopped") >>)
            /\ UNCHANGED can_running
       ELSE EnterJoin("stop_monitoring", << HandleEv("command", "stop_monitoring") >>)
    /\ UNCHANGED <<cfg_view, can_interface, can_channel, can_bitrate, buses, can_bus,
                   threads, can_thread, notBus>>

\* what on_config_updated can be given: "" and 0 stand for a key that is absent
NoUpdate == [can_interface |-> "", can_channel |-> "", can_bitrate |-> 0]

ConfigUpdates ==
    { NoUpdate,
      [NoUpdate EXCEPT !.can_channel = "vcan1"],
      [NoUpdate EXCEPT !.can_interface = "socketcan", !.can_bitrate = 500000] }

ConfigEv(u) ==
    [k |-> "config", update |-> u,
     old |-> [can_interface |-> can_interface, can_channel |-> can_channel,
              can_bitrate |-> can_bitrate],
     bus |-> BusState(can_bus),
     started |-> mpc \notin {"init", "starting"}]

\* a variant that restarts the bus without taking the channel of the update
\* (C7_HotRestartWhenOpenSucceeds tells it apart)
ConfigUpdateKeepsChannel ==
    /\ CanListen
    /\ \E u \in ConfigUpdates :
         /\ can_interface' = IF u.can_interface # "" THEN u.can_interface ELSE can_interface
         /\ can_channel' = can_channel
         /\ can_bitrate' = IF u.can_bitrate # 0 THEN u.can_bitrate ELSE can_bitrate
         /\ cfg_view' =
              [can_interface |-> IF u.can_interface # "" THEN u.can_interface
                                 ELSE cfg_view.can_interface,
               can_channel |-> IF u.can_channel # "" THEN u.can_channel
                               ELSE cfg_view.can_channel]
         /\ IF u.can_interface # "" \/ u.can_channel # "" \/ u.can_bitrate # 0
            THEN EnterJoin("config", << ConfigEv(u) >>)
            ELSE Finish(<< ConfigEv(u) >>) /\ UNCHANGED can_running
    /\ UNCHANGED <<buses, can_bus, threads, can_thread, notBus>>

\* on_config_updated, up to the join of _stop_can_bus
ConfigUpdate ==
    /\ CanListen
    /\ \E u \in ConfigUpdates :
         /\ can_interface' = IF u.can_interface # "" THEN u.can_interface ELSE can_interface
         /\ can_channel' = IF u.can_channel # "" THEN u.can_channel ELSE can_channel
         /\ can_bitrate' = IF u.can_bitrate # 0 THEN u.can_bitrate ELSE can_bitrate
         /\ cfg_view' =
              [can_interface |-> IF u.can_interface # "" THEN u.can_interface
                                 ELSE cfg_view.can_interface,
               can_channel |-> IF u.can_channel # "" THEN u.can_channel
                               ELSE cfg_view.can_channel]
         /\ IF u.can_interface # "" \/ u.can_channel # "" \/ u.can_bitrate # 0
            THEN EnterJoin("config", << ConfigEv(u) >>)
            ELSE Finish(<< ConfigEv(u) >>) /\ UNCHANGED can_running
    /\ UNCHANGED <<buses, can_bus, threads, can_thread, notBus>>

\* Bus.shutdown() of handle h was called; alive: the ingestion threads that had
\* not left their loop then, fg: run_daemon's loop was running
ShutdownEv(h) ==
    [k |-> "shutdown", h |-> h, alive |-> {i \in 1..Len(threads) : ThreadAlive(i)},
     fg |-> mpc \in {"fg_check", "fg_recv", "fg_got"}]

\* the join of _stop_can_bus returns (timedOut: with the thread alive) and the
\* handle is shut down; stop_monitoring answers, on_config_updated sleeps 0.5 s
ListenerJoinReturn(timedOut) ==
    /\ ~Exited
    /\ lpc = "join"
    /\ timedOut = (can_thread # 0 /\ ThreadAlive(can_thread))
    /\ buses' = ShutdownBus(buses)
    /\ fan' = NoFan
    /\ NoCall
    /\ IF lctx.h = "config"
       THEN /\ trace' = trace \o (IF can_bus # 0 THEN << ShutdownEv(can_bus) >> ELSE <<>>)
            /\ lpc' = "reopen"
            /\ UNCHANGED lctx
       ELSE /\ trace' = trace \o << ShutdownEv(can_bus),
                                    send_response("success", "CAN monitoring stopped") >>
            /\ lpc' = "idle"
            /\ lctx' = NoCtx
    /\ UNCHANGED <<cfg_view, can_interface, can_channel, can_bitrate, can_bus, can_running,
                   threads, can_thread, notBus>>

\* can.interface.Bus(interface, channel, bitrate) was called, and returned h
OpenEv(success, h) ==
    [k |-> "open", ok |-> success, h |-> h, interface |-> can_interface',
     channel |-> can_channel', bitrate |-> can_bitrate']

\* on_config_updated, from _start_can_bus on
ConfigReopen ==
    /\ ~Exited
    /\ lpc = "reopen"
    /\ \E success \in BOOLEAN :
         /\ start_can_bus(success)
         /\ Finish(trace \o << OpenEv(success, IF success THEN can_bus' ELSE 0) >>)
    /\ UNCHANGED notBus

(***************************************************************************)
(* Playback Engine: _handle_play_can_file, _start_playback,                *)
(* _playback_worker.                                                       *)
(***************************************************************************)
NewWorker == [pc |-> "parse", idx |-> 0, h |-> 0]

\* _handle_play_can_file and _start_playback
HandlePlayCanFile ==
    /\ CanListen
    /\ \E file_path \in {"", "log"} :
         /\ IF file_path # "" /\ playback_enabled /\ ~playback_running
               /\ Len(workers) < MaxPlays
            THEN /\ playback_running' = TRUE
                 /\ workers' = Append(workers, NewWorker)
                 /\ playback_thread' = Len(workers) + 1
            ELSE UNCHANGED <<playback_running, workers, playback_thread>>
         /\ Finish(<< HandleEv("play_can_file", file_path) >>)
    /\ UNCHANGED <<busVars, data_subscribers, emergency_stop_enabled, playback_enabled,
                   listening, mainVars>>

workerRest == <<busVars, data_subscribers, emergency_stop_enabled, playback_enabled,
                playback_thread, listening, mainVars, lpc, lctx>>

\* parse_log_file returns the messages of the file
WorkerParsed(j) ==
    /\ ~Exited
    /\ workers[j].pc = "parse"
    /\ workers' = [workers EXCEPT ![j].pc = "loop"]
    /\ Quiet
    /\ UNCHANGED <<playback_running, workerRest>>

\* the import or parse_log_file raises: except, then finally
WorkerParseFails(j) ==
    /\ ~Exited
    /\ workers[j].pc = "parse"
    /\ workers' = [workers EXCEPT ![j].pc = "done"]
    /\ playback_running' = FALSE
    /\ Quiet
    /\ UNCHANGED workerRest

\* the head of the for loop: the file is played to its end, or the flag is
\* clear (break), and finally clears the flag
WorkerLeave(j) ==
    /\ ~Exited
    /\ workers[j].pc = "loop"
    /\ workers[j].idx = PlaybackLen \/ ~playback_running
    /\ workers' = [workers EXCEPT ![j].pc = "done"]
    /\ playback_running' = FALSE
    /\ Quiet
    /\ UNCHANGED workerRest

\* one more message: self.can_bus.send(can_msg) is entered if can_bus is set,
\* else the message is skipped and the worker sleeps
WorkerNext(j) ==
    /\ ~Exited
    /\ workers[j].pc = "loop"
    /\ workers[j].idx < PlaybackLen
    /\ playback_running
    /\ workers' = [workers EXCEPT
                     ![j] = IF can_bus # 0
                            THEN [pc |-> "send", idx |-> @.idx, h |-> can_bus]
                            ELSE [pc |-> "loop", idx |-> @.idx + 1, h |-> 0]]
    /\ Quiet
    /\ UNCHANGED <<playback_running, workerRest>>

\* the send returns, and the worker sleeps 0.1 s
WorkerSent(j) ==
    /\ ~Exited
    /\ workers[j].pc = "send"
    /\ BusOpen(workers[j].h)
    /\ workers' = [workers EXCEPT ![j] = [pc |-> "loop", idx |-> @.idx + 1, h |-> 0]]
    /\ Quiet
    /\ UNCHANGED <<playback_running, workerRest>>

\* a variant that logs a send that raises and goes on with the next message
\* (C38_SendFailureEndsRun tells it apart)
WorkerSendFailsSkips(j) ==
    /\ ~Exited
    /\ workers[j].pc = "send"
    /\ workers' = [workers EXCEPT ![j] = [pc |-> "loop", idx |-> @.idx + 1, h |-> 0]]
    /\ Quiet
    /\ UNCHANGED <<playback_running, workerRest>>

\* the send raises: except, then finally
WorkerSendFails(j) ==
    /\ ~Exited
    /\ workers[j].pc = "send"
    /\ workers' = [workers EXCEPT ![j] = [pc |-> "done", idx |-> @.idx, h |-> 0]]
    /\ playback_running' = FALSE
    /\ Quiet
    /\ UNCHANGED workerRest

Playback ==
    \E j \in 1..Len(workers) :
        \/ WorkerParsed(j) \/ WorkerParseFails(j) \/ WorkerLeave(j)
        \/ WorkerNext(j) \/ WorkerSent(j) \/ WorkerSendFails(j)

Listener ==
    \/ HandleSendMessage \/ HandleSendJ1939 \/ HandleSendCanMessage
    \/ HandleOtherCommand \/ CommandSendReturn
    \/ HandleEmergencyStop \/ EmergencySendReturn
    \/ HandleSubscribeData \/ HandlePlayCanFile
    \/ HandleStartMonitoring \/ HandleStopMonitoring
    \/ ConfigUpdate \/ ConfigReopen
    \/ \E timedOut \in BOOLEAN : ListenerJoinReturn(timedOut)

Next == Main \/ Listener \/ Ingestion \/ Playback \/ Heartbeat

\* the whole node
Spec == Init /\ [][Next]_vars

(***************************************************************************)
(* Scenarios.  Each one restricts what the environment sends the node (the *)
(* messages that arrive, whether frames are on the bus), and leaves out    *)
(* the threads whose steps write nothing that the scenario's handlers read.*)
(***************************************************************************)
Startup == StartBase \/ StartBus

Shutdown ==
    \/ Signal \/ MainStop
    \/ \E ctx \in {"sig", "main"}, timedOut \in BOOLEAN :
         StopJoinHb(ctx, timedOut) \/ StopJoinCan(ctx, timedOut) \/ StopJoinPb(ctx, timedOut)

Monitoring ==
    \/ HandleStartMonitoring \/ HandleStopMonitoring
    \/ \E timedOut \in BOOLEAN : ListenerJoinReturn(timedOut)

BusCommands ==
    \/ HandleSendMessage \/ HandleSendJ1939 \/ HandleSendCanMessage
    \/ CommandSendReturn
    \/ HandleEmergencyStop \/ EmergencySendReturn

\* the command plane: every message the dispatcher can be given
NextCommands ==
    \/ Startup \/ Shutdown \/ Monitoring \/ BusCommands
    \/ HandleOtherCommand \/ HandleSubscribeData \/ HandlePlayCanFile

SpecCommands == Init /\ [][NextCommands]_vars

\* the configuration of main(): playback_enabled is true
InitPlaybackOn == Init /\ playback_enabled

\* playback beside the senders of the command plane
NextPlayback ==
    \/ Startup \/ Shutdown \/ Monitoring \/ BusCommands
    \/ HandlePlayCanFile \/ Playback

SpecPlayback == Init /\ [][NextPlayback]_vars

\* playback beside what opens and shuts the bus handle: start-up, the monitoring
\* commands and the hot-restart
NextWorker ==
    \/ Startup \/ Monitoring
    \/ ConfigUpdate \/ ConfigReopen
    \/ HandlePlayCanFile \/ Playback

SpecWorker == InitPlaybackOn /\ [][NextWorker]_vars

\* the traffic of a healthy bus: rudder frames that decode, beside a Master Core
\* that takes what it is sent
PlainTraffic ==
    /\ fan'.frame \in {NoFrame, [pgn |-> RudderPgn, dec |-> "decoded"]}
    /\ ~fan'.storeFailed /\ ~fan'.dataFailed

\* ingestion over a sound adapter: recv raises on a handle that is shut down
\* and on no other; how many exceptions came in a row is not recorded
SoundIngestion ==
    \E i \in 1..Len(threads) :
        \/ LoopCheck(i) \/ RecvFrame(i) \/ RecvNone(i)
        \/ RecvRaises(i, 0) /\ ~BusOpen(threads[i].h)
        \/ ProcessFrame(i)

\* the bus handle's life: ingestion, hot-restart, monitoring commands, shutdown
NextBus ==
    \/ Startup \/ Monitoring
    \/ ConfigUpdate \/ ConfigReopen
    \/ SoundIngestion /\ PlainTraffic
    \/ FgCheck \/ FgRecvFrame \/ FgRecvNothing
    \/ FgProcess /\ PlainTraffic

SpecBus == InitPlaybackOn /\ [][NextBus]_vars

\* frames fanned out to the registry
NextFanOut ==
    \/ Startup
    \/ HandleSubscribeData
    \/ Ingestion
    \/ FgCheck \/ FgRecvFrame \/ FgRecvNothing \/ FgProcess

SpecFanOut == InitPlaybackOn /\ [][NextFanOut]_vars

\* stop() beside healthy workers: each worker reaches its next flag check
\* before the join that waits for it gives up, so a join returns only when the
\* thread it waits for has exited
HealthyStop ==
    \/ Signal \/ MainStop
    \/ \E ctx \in {"sig", "main"} :
         StopJoinHb(ctx, FALSE) \/ StopJoinCan(ctx, FALSE) \/ StopJoinPb(ctx, FALSE)

NextStop ==
    \/ Startup \/ HealthyStop
    \/ Heartbeat \/ Ingestion \/ Playback
    \/ HandlePlayCanFile

SpecStop == InitPlaybackOn /\ [][NextStop]_vars

\* ingestion on a bus that carries no frame: every recv returns None
SilentIngestion == \E i \in 1..Len(threads) : LoopCheck(i) \/ RecvNone(i)

\* the heartbeat worker against the clock, from a start at any second of a
\* ten-second period to a stop() whose joins do not time out
NextHeartbeat ==
    \/ ClockTick
    \/ Startup \/ HealthyStop
    \/ TimedHeartbeat
    \/ SilentIngestion

SpecHeartbeat == InitPlaybackOn /\ [][NextHeartbeat]_vars

(***************************************************************************)
(* Properties of the command plane.                                        *)
(***************************************************************************)

\* the listener has just completed the handler registered for type
Handled(type) ==
    lpc = "idle" /\ trace # <<>> /\ trace[1].k = "handle" /\ trace[1].type = type

\* the messages to peers the handler has issued, in order
PeersOf(events) == SelectSeq(events, LAMBDA e : e.k = "peer")
CanSendsOf(events) == SelectSeq(events, LAMBDA e : e.k = "can_send")

ExpectedPeers == [i \in 1..Len(emergency_nodes) |-> PeerEv(emergency_nodes[i], "EMERGENCY")]

\* C1: when an emergency stop is handled with the bus open and the CAN emergency
\* enabled, the handler issues exactly one bus send, of the standard frame with
\* identifier 0x1FF and eight 0xFF bytes, and only after that send the EMERGENCY
\* messages to the configured peers, one each, in the configured order.
C1_EmergencyFrameThenPeers ==
    /\ (Handled("emergency_stop") /\ trace[1].bus = "open" /\ emergency_stop_enabled) =>
          /\ Len(trace) = 2 + Len(emergency_nodes)
          /\ trace[2].k = "can_send"
          /\ trace[2].frame.arbitration_id = 511
          /\ trace[2].frame.data = <<255, 255, 255, 255, 255, 255, 255, 255>>
          /\ trace[2].frame.is_extended_id = FALSE
          /\ \A i \in 1..Len(emergency_nodes) : trace[2 + i] = ExpectedPeers[i]
    /\ (lpc = "send" /\ lctx.h = "emergency_stop") =>
          /\ PeersOf(trace) = <<>>
          /\ lctx.frame.arbitration_id = 511

C1_Witness ==
    /\ Handled("emergency_stop") /\ trace[1].bus = "open"
    /\ Len(trace) = 5 /\ trace[2].k = "can_send" /\ trace[2].ok
    /\ trace[5] = PeerEv("autopilot", "EMERGENCY")

\* C2: however the bus send of an emergency stop goes (no handle, a handle that
\* is shut down, a send that raises), the handler completes without an
\* exception escaping it and has issued the EMERGENCY message to every
\* configured peer, once each.
C2_EmergencyBroadcastAlways ==
    Handled("emergency_stop") =>
        /\ PeersOf(trace) = ExpectedPeers
        /\ \A i \in 1..Len(trace) : trace[i].k # "raise"
        /\ Len(CanSendsOf(trace)) <= 1

C2_Witness ==
    /\ Handled("emergency_stop") /\ trace[1].bus = "shut"
    /\ trace[2].k = "can_send" /\ ~trace[2].ok
    /\ PeersOf(trace) = ExpectedPeers

\* C3: a COMMAND whose command is emergency_stop, subscribe_data or play_can_file
\* takes the effect of the handler of that name (for emergency_stop: the
\* EMERGENCY messages to the peers) and is never answered "Unknown command".
C3_NamedCommandsDispatched ==
    (Handled("command")
       /\ trace[1].command \in {"emergency_stop", "subscribe_data", "play_can_file"}) =>
        /\ \A i \in 1..Len(trace) :
              ~(trace[i].k = "response" /\ trace[i].message = "Unknown command")
        /\ trace[1].command = "emergency_stop" => PeersOf(trace) = ExpectedPeers

(***************************************************************************)
(* Properties of playback and of the senders.                              *)
(***************************************************************************)

\* the playback workers that have not left _playback_worker
LiveWorkers == { j \in 1..Len(workers) : WorkerAlive(j) }

\* C4: at every moment at most one playback worker exists.
C4_OnePlaybackWorker == Cardinality(LiveWorkers) <= 1

\* the threads that are inside a send call on a bus handle
Senders ==
    { <<"worker", j>> : j \in { i \in 1..Len(workers) : workers[i].pc = "send" } }
    \cup (IF lpc = "send" THEN { <<"listener", 0>> } ELSE {})

\* C5: no two send calls on the bus are in progress at the same time.
C5_SendsSerialized == Cardinality(Senders) <= 1

(***************************************************************************)
(* Properties of ingestion and of the bus handle.                          *)
(***************************************************************************)

\* the threads that are inside a recv call on a bus handle
Receivers ==
    { <<"ingestion", i>> : i \in { t \in 1..Len(threads) : threads[t].pc = "recv" } }
    \cup (IF mpc = "fg_recv" THEN { <<"main", 0>> } ELSE {})

\* C6: in daemon and in foreground mode, recv is called by the ingestion
\* thread only, so that no two recv calls are in progress at the same time and
\* the main thread is never inside one.
C6_RecvExclusive == Cardinality(Receivers) <= 1 /\ mpc # "fg_recv"

\* on_config_updated has just completed a restart that began with the bus open
HotRestarted ==
    /\ lpc = "idle" /\ trace # <<>> /\ trace[1].k = "config"
    /\ trace[1].update # NoUpdate
    /\ trace[1].bus = "open"

\* the value a key has after the update trace[1]
UpdatedInterface ==
    IF trace[1].update.can_interface # "" THEN trace[1].update.can_interface
    ELSE trace[1].old.can_interface
UpdatedChannel ==
    IF trace[1].update.can_channel # "" THEN trace[1].update.can_channel
    ELSE trace[1].old.can_channel
UpdatedBitrate ==
    IF trace[1].update.can_bitrate # 0 THEN trace[1].update.can_bitrate
    ELSE trace[1].old.can_bitrate

\* the old handle was shut down before the open was called
ClosedFirst ==
    /\ Len(trace) = 3
    /\ trace[2].k = "shutdown" /\ ~buses[trace[2].h].open
    /\ trace[3].k = "open" /\ trace[3].h # trace[2].h

\* ingestion is receiving on the handle the restart opened
ReceivingOn(h) ==
    /\ h # 0 /\ can_bus = h /\ buses[h].open
    /\ can_running
    /\ can_thread # 0 /\ ThreadAlive(can_thread)

C8_ShutdownAfterQuiesce ==
    (trace # <<>> /\ trace[1].k = "config") =>
        \A i \in 1..Len(trace) :
            trace[i].k = "shutdown" => (trace[i].alive = {} /\ ~trace[i].fg)

(***************************************************************************)
(* Properties of the fan-out.                                              *)
(***************************************************************************)

\* how many deliveries the last _process_can_message made to the subscriber
Deliveries(name) == Len(SelectSeq(fan.ev, LAMBDA e : e.k = "node" /\ e.to = name))

Registered(f) == { f.subs[i] : i \in 1..Len(f.subs) }

\* C9: a frame that has been decoded is delivered exactly once to every
\* registered subscriber, also when the DATA send to Master Core raises.
C9_OneDeliveryPerFrame ==
    (fan # NoFan /\ fan.frame.dec = "decoded" /\ fan.failed = {}) =>
        \A name \in Registered(fan) : Deliveries(name) = 1

\* C10: when the send to one subscriber raises, every other registered
\* subscriber still gets its delivery of the frame, once.
C10_BestEffortPerPeer ==
    (fan # NoFan /\ fan.failed # {}) =>
        \A name \in Registered(fan) \ fan.failed : Deliveries(name) = 1

\* the store_can_data COMMANDs the last _process_can_message sent to Master Core
StoresOf(f) == SelectSeq(f.ev, LAMBDA e : e.k = "mc" /\ e.what = "store_can_data")
DataOf(f) == SelectSeq(f.ev, LAMBDA e : e.k = "mc" /\ e.what = "DATA")

\* C11: unless its send raises, a store_can_data COMMAND goes to Master Core for
\* a frame exactly if the frame was decoded and its category is not Unknown; a
\* frame with a PGN outside the recognized set has category Unknown and yields
\* no store_can_data COMMAND.
C11_StoreIffKnownCategory ==
    (fan # NoFan /\ ~fan.storeFailed) =>
        /\ (StoresOf(fan) # <<>>) <=>
              (fan.frame.dec = "decoded" /\ categorize_data(fan.frame.pgn) # "Unknown")
        /\ Len(StoresOf(fan)) <= 1

\* the deliveries of the last _process_can_message to the subscriber, by payload
DeliveriesAs(name, decoded) ==
    Len(SelectSeq(fan.ev, LAMBDA e : e.k = "node" /\ e.to = name /\ e.decoded = decoded))

\* C12: when decoding a frame raises, every registered subscriber (but one whose
\* own delivery raised) gets the raw message of that frame with the error
\* field, once; no store_can_data COMMAND is sent for the frame; and no
\* exception leaves _process_can_message.
C12_DecodeErrorStillFansOut ==
    (fan # NoFan /\ fan.frame.dec = "raises") =>
        /\ \A name \in Registered(fan) \ fan.failed :
              DeliveriesAs(name, "error") = 1 /\ Deliveries(name) = 1
        /\ StoresOf(fan) = <<>>
        /\ ~fan.escaped

\* in what the last _process_can_message did, no delivery to a subscriber
\* comes after the DATA message to Master Core
DeliveriesBeforeData ==
    \A i \in 1..Len(fan.ev) : \A j \in 1..Len(fan.ev) :
        (fan.ev[i].k = "mc" /\ fan.ev[i].what = "DATA" /\ fan.ev[j].k = "node") => j < i

\* C23: within one frame the deliveries to the subscribers come before the
\* DATA message to Master Core, and a frame whose decoding does not raise
\* (decoded or not) always gets both: its deliveries, and then the DATA send
C23_SubscribersThenData ==
    (fan # NoFan /\ fan.frame.dec \in {"decoded", "empty"}) =>
        /\ DeliveriesBeforeData
        /\ \A name \in Registered(fan) \ fan.failed : Deliveries(name) >= 1
        /\ Len(DataOf(fan)) = 1 \/ fan.dataFailed

(***************************************************************************)
(* Properties of the bus commands and their responses.                     *)
(***************************************************************************)
ResponsesOf(events) == SelectSeq(events, LAMBDA e : e.k = "response")

SendCommands == {"send_message", "send_j1939", "send_can_message"}

\* the listener takes a step of the handler of a send command
SendCommandStep ==
    \/ lpc = "idle" /\ lpc' = "send" /\ lctx'.h \in SendCommands
    \/ lpc = "send" /\ lctx.h \in SendCommands /\ lpc' = "idle"
    \/ /\ lpc = "idle" /\ lpc' = "idle" /\ trace' # <<>> /\ trace' # trace
       /\ trace'[1].k = "handle" /\ trace'[1].type = "command"
       /\ trace'[1].command \in SendCommands

\* the state of the node but for the listener's own position
NodeState ==
    <<can_bus, buses, can_running, threads, can_thread, can_interface, can_channel,
      can_bitrate, data_subscribers, playback_running, workers, listening, status>>

\* C13: send_message, send_j1939 and send_can_message handled while the bus is
\* not open (no handle, or a handle that has been shut down) are answered with
\* one response that reports an error, nothing is raised out of the handler,
\* no frame goes out, and no step of the handler changes the node's state.
C13_SendOnClosedBusAnswersError ==
    /\ [](Handled("command") /\ trace[1].command \in SendCommands /\ trace[1].bus # "open"
             => /\ Len(ResponsesOf(trace)) = 1
                /\ ResponsesOf(trace)[1].status = "error"
                /\ \A i \in 1..Len(trace) :
                      /\ trace[i].k # "raise"
                      /\ trace[i].k = "can_send" => ~trace[i].ok)
    /\ [][SendCommandStep => UNCHANGED NodeState]_vars

C13_Witness ==
    /\ Handled("command") /\ trace[1].command = "send_j1939" /\ trace[1].bus = "shut"
    /\ Len(trace) = 3 /\ trace[2].k = "can_send" /\ ~trace[2].ok
    /\ trace[3].k = "response" /\ trace[3].status = "error"

\* C14: a start_monitoring that is answered with success leaves the bus open
\* with an ingestion thread receiving on it; success is never answered while
\* the bus is closed.
C14_StartMonitoringOpensClosedBus ==
    (Handled("command") /\ trace[1].command = "start_monitoring"
       /\ ResponsesOf(trace)[1].status = "success") =>
        /\ can_bus # 0 /\ buses[can_bus].open
        /\ can_thread # 0 /\ ThreadAlive(can_thread)

\* C15: a stop_monitoring handled while the bus is already closed is answered
\* with success and calls nothing on the bus handle, so that a handle is shut
\* down at most once.
C15_StopMonitoringIdempotent ==
    (Handled("command") /\ trace[1].command = "stop_monitoring" /\ trace[1].bus # "open") =>
        /\ ResponsesOf(trace)[1].status = "success"
        /\ \A i \in 1..Len(trace) : trace[i].k # "shutdown"

\* the listener has just completed a handler
HandledAny == lpc = "idle" /\ trace # <<>> /\ trace[1].k = "handle"

\* C16: every command, on every path through its handler, is answered with
\* exactly one RESPONSE to its sender.
C16_EveryCommandAnswered ==
    (HandledAny
       /\ (trace[1].type = "command" => trace[1].command \in HandledCommands)) =>
        Len(ResponsesOf(trace)) = 1

\* C17: a RESPONSE that reports a failure is sent with priority HIGH, a
\* RESPONSE that reports success with a lower one.
C17_ErrorResponsesHighPriority ==
    HandledAny =>
        \A i \in 1..Len(trace) :
            trace[i].k = "response" =>
                (trace[i].priority = "HIGH") <=> (trace[i].status = "error")

(***************************************************************************)
(* Properties of the degraded state and of shutdown.                       *)
(***************************************************************************)

\* C18: when the bus cannot be opened at startup (auto-detection included), the
\* node keeps running in a degraded state: the process has not ended and the
\* listener goes on handling messages.
C18_DegradedKeepsRunning ==
    (status = "ERROR" /\ spc = "none") => (~Exited /\ listening)

\* on_config_updated has just completed a restart whose _start_can_bus failed
RestartFailed ==
    /\ lpc = "idle" /\ trace # <<>> /\ trace[1].k = "config"
    /\ trace[1].update # NoUpdate
    /\ trace[Len(trace)].k = "open" /\ ~trace[Len(trace)].ok

\* on_config_updated has just completed a restart that found the handle shut down
RestartedFromClosed ==
    /\ lpc = "idle" /\ trace # <<>> /\ trace[1].k = "config"
    /\ trace[1].update # NoUpdate
    /\ trace[1].bus = "shut"

StopReturned == spc = "done" /\ ~Exited

Quiesced ==
    /\ ~heartbeat_task_running /\ ~can_running /\ ~playback_running
    /\ ~HeartbeatAlive
    /\ \A i \in 1..Len(threads) : ~ThreadAlive(i)
    /\ \A j \in 1..Len(workers) : ~WorkerAlive(j)

\* C20: beside workers that reach their next flag check, once stop() has
\* returned the three running flags are false and the heartbeat, ingestion and
\* playback workers have all exited, so that none of them sends or receives
\* from then on
C20_StopQuiesces == StopReturned => Quiesced

\* the main thread is inside a stop() of its own (main()'s or run_daemon's)
MainStopping == mpc \in {"join_hb", "join_can", "join_pb"}

\* C21: a signal's shutdown runs the stop sequence (worker joins and bus
\* shutdown) once: after signal_handler has called stop(), the main thread
\* never enters a stop() of its own, in daemon mode and in foreground mode
C21_SignalStopsOnce == spc # "none" => ~MainStopping

\* C22: the ingestion loop outlives a recv exception, and once recv has raised
\* three times in a row the node's status is ERROR while the loop is still
\* running
C22_ThreeRecvErrorsSetError ==
    \A i \in 1..Len(threads) :
        /\ (threads[i].errs > 0 /\ can_running) => ThreadAlive(i)
        /\ threads[i].errs >= 3 => (status = "ERROR" /\ ThreadAlive(i))

(***************************************************************************)
(* Properties of the codec.                                                *)
(***************************************************************************)
\* PF of an identifier, and of a PGN
PfOfId(id) == (id \div (2 ^ 16)) % 256
PfOfPgn(pgn) == (pgn \div 256) % 256

\* C24 as stated: encode_id(decode_id(id)) = id for every 29-bit identifier
C24_IdRoundTrip == calc.op = "id" => calc.out.id = calc.in.id

\* C24, amended: encode_id(decode_id(id)) = id for every identifier of PDU2
\* format (PF >= 240); for one of PDU1 format the result is id with its
\* destination byte cleared
C24_IdRoundTripButDestination ==
    calc.op = "id" =>
        /\ PfOfId(calc.in.id) >= 240 => calc.out.id = calc.in.id
        /\ PfOfId(calc.in.id) < 240 =>
              calc.out.id = calc.in.id - 256 * calc.out.header.destination

\* the round trip of the rudder identifier of priority 6 and source 0x91
C24_Witness ==
    /\ calc.op = "id" /\ calc.in.id = 435228049
    /\ calc.out.header = [pgn |-> RudderPgn, source |-> DefaultSourceAddress,
                          destination |-> 255, priority |-> 6]
    /\ calc.out.id = 435228049

\* what the spec's decode_id makes of the frame of the last generic J1939 send
DecodedFrame == decode_id(calc.out.arbitration_id)

\* C25 as stated: for every pgn in 0..262143, source address in 0..255 and
\* priority in 0..7, the identifier of the frame of the generic J1939 send
\* decodes to the same pgn, source address and priority
C25_J1939FrameDecodes ==
    calc.op = "j1939" =>
        /\ DecodedFrame.pgn = calc.in.pgn
        /\ DecodedFrame.source = calc.in.source_address
        /\ DecodedFrame.priority = calc.in.priority

\* C25, amended: source address and priority always come back, and so does a
\* pgn of PDU2 format; of a pgn of PDU1 format the low byte comes back as the
\* destination, and the pgn without it
C25_J1939FrameDecodesButDestination ==
    calc.op = "j1939" =>
        /\ calc.out.is_extended_id
        /\ DecodedFrame.source = calc.in.source_address
        /\ DecodedFrame.priority = calc.in.priority
        /\ PfOfPgn(calc.in.pgn) >= 240 => DecodedFrame.pgn = calc.in.pgn
        /\ PfOfPgn(calc.in.pgn) < 240 =>
              /\ DecodedFrame.pgn = calc.in.pgn - (calc.in.pgn % 256)
              /\ DecodedFrame.destination = calc.in.pgn % 256

C25_Witness ==
    /\ calc.op = "j1939" /\ calc.in.pgn = 130306 /\ calc.in.priority = 3
    /\ calc.in.source_address = 35
    /\ DecodedFrame.pgn = 130306 /\ DecodedFrame.priority = 3 /\ DecodedFrame.source = 35

\* the fields the layout gives back from the last rudder frame
DecodedRudder == decode_rudder(calc.out.data)
InInt16(raw) == raw >= -32768 /\ raw <= 32767

C27_PiIsClamped ==
    calc.op = "rudder" =>
        /\ calc.in.position = Pi => DecodedRudder.position = 32767
        /\ calc.in.position = 0 - Pi => DecodedRudder.position = -32768
        /\ InInt16(DecodedRudder.position) /\ InInt16(DecodedRudder.angleOrder)

\* C27, amended: +pi and -pi lie inside the range and are encoded as raw 31416
\* and -31416; a position or angleOrder above 3.2767 rad is encoded as 32767 and
\* one below -3.2768 rad as -32768, so that every encoded value lies in
\* [-32768, 32767]
C27_PiIsNotClamped ==
    calc.op = "rudder" =>
        /\ calc.in.position = Pi => DecodedRudder.position = 31416
        /\ calc.in.position = 0 - Pi => DecodedRudder.position = -31416
        /\ ScaleRad(calc.in.position) > 32767 => DecodedRudder.position = 32767
        /\ ScaleRad(calc.in.position) < -32768 => DecodedRudder.position = -32768
        /\ ScaleRad(calc.in.angleOrder) > 32767 => DecodedRudder.angleOrder = 32767
        /\ ScaleRad(calc.in.angleOrder) < -32768 => DecodedRudder.angleOrder = -32768
        /\ InInt16(DecodedRudder.position) /\ InInt16(DecodedRudder.angleOrder)

\* +pi as the position, beside an angleOrder beyond the range
C27_Witness ==
    /\ calc.op = "rudder" /\ calc.in.position = Pi /\ calc.in.angleOrder = 400000
    /\ DecodedRudder.position = 31416 /\ DecodedRudder.angleOrder = 32767

\* C28 as stated: the rudder frame's identifier has priority 6, PGN 127245 and
\* the configured source address, is extended, and with source address 0x91 is
\* 0x19F70D91
C28_RudderIdentifierAsWritten ==
    calc.op = "rudder" =>
        /\ calc.out.arbitration_id
              = 6 * (2 ^ 26) + RudderPgn * (2 ^ 8) + calc.in.source_address
        /\ calc.out.is_extended_id
        /\ calc.in.source_address = DefaultSourceAddress =>
              calc.out.arbitration_id = 435621265

\* C28, amended: ... and with source address 0x91 is 0x19F10D91, which the
\* header decoder reads as priority 6, PGN 127245, source 0x91
C28_RudderIdentifier ==
    calc.op = "rudder" =>
        /\ calc.out.arbitration_id
              = 6 * (2 ^ 26) + RudderPgn * (2 ^ 8) + calc.in.source_address
        /\ calc.out.is_extended_id
        /\ DecodedFrame.priority = 6 /\ DecodedFrame.pgn = RudderPgn
        /\ DecodedFrame.source = calc.in.source_address
        /\ calc.in.source_address = DefaultSourceAddress =>
              calc.out.arbitration_id = 435228049

C28_Witness ==
    /\ calc.op = "rudder" /\ calc.in.source_address = DefaultSourceAddress
    /\ calc.out.arbitration_id = 435228049 /\ calc.out.is_extended_id

\* the two bytes of a 16-bit field, low byte first
LittleEndian16(raw) ==
    LET u == IF raw < 0 THEN raw + 65536 ELSE raw IN << u % 256, u \div 256 >>

InRegistry(name) == \E i \in 1..Len(data_subscribers) : data_subscribers[i] = name

\* the registry holds no name twice, and not the empty name
RegistryDistinct ==
    \A i \in 1..Len(data_subscribers) :
        /\ data_subscribers[i] # ""
        /\ \A j \in 1..Len(data_subscribers) :
              data_subscribers[i] = data_subscribers[j] => i = j

\* the step is a subscribe_data handled by the listener
SubscribeStep ==
    /\ lpc = "idle" /\ lpc' = "idle" /\ trace' # <<>>
    /\ trace'[1].k = "handle" /\ trace'[1].type = "subscribe_data"

\* C30: the registry is duplicate-free and insertion-only: no step removes or
\* moves a name, a subscribe_data for an absent non-empty name appends it, and
\* one for a name that is present, or with no subscriber, changes nothing
C30_RegistryInsertOnly ==
    /\ []RegistryDistinct
    /\ [][/\ Len(data_subscribers') >= Len(data_subscribers)
          /\ SubSeq(data_subscribers', 1, Len(data_subscribers)) = data_subscribers
          /\ SubscribeStep =>
                data_subscribers' =
                    IF trace'[1].command = "" \/ InRegistry(trace'[1].command)
                    THEN data_subscribers
                    ELSE Append(data_subscribers, trace'[1].command)]_vars

\* a subscribe_data for a name that is present, with two names registered
C30_Witness ==
    /\ data_subscribers = << "logger", "gui" >>
    /\ Handled("subscribe_data") /\ trace[1].command = "logger"

(***************************************************************************)
(* Properties of the configuration update and of the bus handle's life.    *)
(***************************************************************************)
\* the update of the config event ev carries a CAN key whose value differs
\* from the one the node had
KeysChanged(ev) ==
    \/ ev.update.can_interface # "" /\ ev.update.can_interface # ev.old.can_interface
    \/ ev.update.can_channel # "" /\ ev.update.can_channel # ev.old.can_channel
    \/ ev.update.can_bitrate # 0 /\ ev.update.can_bitrate # ev.old.can_bitrate

\* C31: on_config_updated restarts the bus exactly if a CAN key changed: an
\* update without the keys, or one that carries them with their current
\* values, never enters _stop_can_bus or _start_can_bus (so it leaves the
\* handle, can_running and the ingestion thread alone), and one that changes a
\* key does both
C31_RestartIffChanged ==
    /\ (lpc \in {"join", "reopen"} /\ lctx.h = "config") => KeysChanged(trace[1])
    /\ (lpc = "idle" /\ trace # <<>> /\ trace[1].k = "config") =>
          (Len(trace) > 1 <=> KeysChanged(trace[1]))

\* the ingestion threads that have not left _can_message_loop
LiveThreads == { i \in 1..Len(threads) : ThreadAlive(i) }

\* C36: at every moment at most one ingestion thread is alive: no thread is
\* started while an earlier one can still run the receive loop
C36_OneIngestionThread == Cardinality(LiveThreads) <= 1

\* C37: whenever can_running is true, can_bus refers to a handle that has been
\* opened and has not been shut down
C37_RunningImpliesOpenBus == can_running => BusOpen(can_bus)

(***************************************************************************)
(* Properties of the playback worker.                                      *)
(***************************************************************************)
\* the listener handles a play_can_file for a file while playback is enabled
\* and no run is going on
PlayAccepted ==
    /\ lpc = "idle" /\ lpc' = "idle" /\ trace' # <<>>
    /\ trace'[1].k = "handle" /\ trace'[1].type = "play_can_file"
    /\ trace'[1].command # ""
    /\ playback_enabled /\ ~playback_running /\ Len(workers) < MaxPlays

\* what a step does to the playback worker j
WorkerStep(j) ==
    /\ workers[j].pc = "done" => workers'[j] = workers[j]
    /\ (workers[j].pc = "send" /\ workers'[j] # workers[j]) =>
          \/ /\ BusOpen(workers[j].h)
             /\ workers'[j].pc = "loop" /\ workers'[j].idx = workers[j].idx + 1
          \/ /\ workers'[j].pc = "done" /\ workers'[j].idx = workers[j].idx
             /\ ~playback_running'
    /\ (workers[j].pc = "loop" /\ workers'[j].pc = "send") =>
          (can_bus # 0 /\ workers'[j].h = can_bus /\ workers'[j].idx = workers[j].idx)
    /\ (workers[j].pc = "loop" /\ workers'[j] # workers[j] /\ can_bus = 0) =>
          IF workers[j].idx < PlaybackLen /\ playback_running
          THEN workers'[j].pc = "loop" /\ workers'[j].idx = workers[j].idx + 1
          ELSE workers'[j].pc = "done"

\* C38: a send of the playback worker that raises (always, on a handle that is
\* shut down) ends the run: the worker sends no later frame and playback_running
\* is false, and a play_can_file handled while it is false starts a new run;
\* while can_bus is unset the worker passes over each frame without a send, up
\* to the end of the file
C38_SendFailureEndsRun ==
    [][/\ \A j \in 1..Len(workers) : WorkerStep(j)
       /\ PlayAccepted =>
             /\ Len(workers') = Len(workers) + 1
             /\ playback_running' /\ playback_thread' = Len(workers')]_vars

\* no stop() has begun, the first run ended at its second frame on a handle that
\* is shut down, and a second run is going on
C38_Witness ==
    /\ spc = "none" /\ ~MainStopping
    /\ Len(workers) = 2
    /\ workers[1].pc = "done" /\ workers[1].idx = 1
    /\ can_bus # 0 /\ ~buses[can_bus].open
    /\ WorkerAlive(2) /\ playback_running

(***************************************************************************)
(* Properties of the classifier.                                           *)
(***************************************************************************)
\* the table of the design: the PGNs listed for each category
CategoryTable ==
    [Heartbeat |-> {126993},
     Engine |-> {127488, 127489, 127497},
     Fuel |-> {127505},
     Navigation |-> {127250, 127257, 127258, 126992, 129025, 129026, 129029, 129283,
                     129284, 129539, 129540},
     EnergyDistribution |-> {127500, 127501, 127751},
     Steering |-> {127245},
     Battery |-> {127506, 127508},
     Product |-> {59392, 60928, 65361}]

\* the categories the table lists the PGN under
ListedUnder(pgn) == { c \in DOMAIN CategoryTable : pgn \in CategoryTable[c] }

\* C33: the category of a PGN is the one the table lists it under (the table
\* lists 25 PGNs, none of them twice) and Unknown for every other PGN, and the
\* collection of a category is "NodeHeartbeat" for Heartbeat and the category's
\* own name for every other one, Unknown included
C33_CategoryTable ==
    calc.op = "categorize" =>
        /\ Cardinality(ListedUnder(calc.in.pgn)) <= 1
        /\ ListedUnder(calc.in.pgn) = {} => calc.out.category = "Unknown"
        /\ ListedUnder(calc.in.pgn) # {} => calc.out.category \in ListedUnder(calc.in.pgn)
        /\ calc.out.collection =
              IF calc.out.category = "Heartbeat" THEN "NodeHeartbeat"
              ELSE calc.out.category
        /\ Cardinality(UNION { CategoryTable[c] : c \in DOMAIN CategoryTable }) = 25

\* the last PGN of the chain of comparisons, and its collection
C33_Witness ==
    /\ calc.op = "categorize" /\ calc.in.pgn = 59392
    /\ calc.out.category = "Product" /\ calc.out.collection = "Product"

(***************************************************************************)
(* Properties of auto-detection.                                           *)
(***************************************************************************)
\* seq holds the elements of sub in their order, from position from on
RECURSIVE HoldsInOrder(_, _, _)
HoldsInOrder(seq, sub, from) ==
    IF sub = <<>> THEN TRUE
    ELSE \E i \in from..Len(seq) :
            seq[i] = sub[1] /\ HoldsInOrder(seq, Tail(sub), i + 1)

PlatformDefaults(system) == IF system = "Windows" THEN WindowsDefaults ELSE LinuxDefaults

\* C32: auto-detection probes the candidates can_interface_1..4 in their
\* order, and behind them the defaults of the platform whenever no configured
\* candidate opens; the first candidate probed that opens becomes the active
\* can_interface and can_channel, and when none opens the active configuration
\* is left as it was
C32_AutoDetect ==
    calc.op = "detect" =>
        /\ HoldsInOrder(calc.out.probed, calc.in.configured, 1)
        /\ calc.out.detected = <<>> =>
              /\ HoldsInOrder(calc.out.probed,
                              calc.in.configured \o PlatformDefaults(calc.in.system), 1)
              /\ calc.out.active = [interface |-> "socketcan", channel |-> "vcan0"]
        /\ calc.in.ok # {} =>
              calc.out.active
                  = calc.out.probed[CHOOSE i \in calc.in.ok : \A j \in calc.in.ok : i <= j]

(***************************************************************************)
(* Properties of the log parser.                                           *)
(***************************************************************************)
\* the byte that column Dk of the line stands for: the columns from the
\* seventh on, as far as the one before the timestamp
ColumnByte(parts, k) ==
    IF 7 + k > Len(parts) - 2 THEN 0
    ELSE IF parts[7 + k] = << "-" >> THEN 0
    ELSE IF IsNumber(parts[7 + k], 16) THEN NumberValue(parts[7 + k], 16)
    ELSE 0

\* C35: a record that is accepted has exactly 8 data bytes, and byte k is what
\* column Dk holds: 0 for a "-" column, at the place of that column, and 0 for
\* a column the line does not have
C35_DataBytesByColumn ==
    (calc.op = "line" /\ calc.out # <<>>) =>
        /\ Len(calc.out[1].data) = 8
        /\ \A k \in 0..7 : calc.out[1].data[k + 1] = ColumnByte(calc.in.parts, k)

\* C39: parse_log_file returns the records of the file it is given, in the
\* order of the file, and no others, also on a CANFileParser that has parsed
\* a file before
C39_ParseReturnsOwnFile ==
    calc.op = "parse" => calc.out = parse_log_file(<<>>, calc.in.file)

\* C40: every identifier built from a priority, a PGN and a source address is
\* a 29-bit unsigned value: the result of _j1939_to_can_id for any integers,
\* and the can_id of every record the log parser accepts
C40_IdsAre29Bit ==
    /\ calc.op = "can_id" => (calc.out >= 0 /\ calc.out < 2 ^ 29)
    /\ (calc.op = "line" /\ calc.out # <<>>) =>
          (calc.out[1].can_id >= 0 /\ calc.out[1].can_id < 2 ^ 29)

(***************************************************************************)
(* Properties of the heartbeat worker.                                     *)
(***************************************************************************)
\* how many heartbeats were sent in the second m
BeatsIn(m) == Cardinality({ i \in 1..Len(beats) : beats[i] = m })

\* the seconds past the worker's start in which a ten-second period begins
PeriodStarts == { m \in 10..MaxClock : m % 10 = 0 }

\* C34: while the heartbeat worker runs, each ten-second period gets exactly
\* one heartbeat, sent in the second that begins it, also when the integer
\* clock moves on by 2 between two checks; no period gets two; and no
\* heartbeat is sent once stop() has returned
C34_OneHeartbeatPerPeriod ==
    /\ [](\A m \in PeriodStarts :
             (heartbeat_task_running /\ HeartbeatAlive /\ clock > m) => BeatsIn(m) = 1)
    /\ [](\A i \in 1..Len(beats) : \A j \in 1..Len(beats) :
             (beats[i] \div 10 = beats[j] \div 10) => i = j)
    /\ [][(spc = "done" \/ Exited) => beats' = beats]_vars

====
